---- MODULE Spec2Model ----
(***************************************************************************)
(* Romance Realism Pack: the Stage (src/src/Stage.tsx) and the heuristics  *)
(* it orchestrates (src/src/analysis_helpers.ts), as a state machine.      *)
(*                                                                         *)
(* A message text is represented by what the detectors' regular            *)
(* expressions find in it (a record of detector findings, see PlainText);  *)
(* everything computed from those findings is computed as the code does.   *)
(* Date.now() is represented by the turn index of the running turn.        *)
(***************************************************************************)
EXTENDS Integers, Sequences, FiniteSets, TLC

VARIABLES
    config,           \* this.config: the raw stage configuration
    myInternalState,  \* Stage.myInternalState (message-level state)
    chatState,        \* Stage._chatState.scene (chat-level state)
    lastOp,           \* which handler ran last
    lastResponse,     \* the StageResponse the last handler returned
    lastTurn,         \* locals of the last afterResponse turn (observed, never read by the code)
    emitLog,          \* turn indices whose emitted note held a non-critical candidate (observed)
    turnLog,          \* signal types detected in each of the last turns, newest last (observed)
    snapLog,          \* emotion snapshots of the last SnapWindow turns, newest last (observed)
    recallLog,        \* the scars a recall candidate was produced for, in order (observed)
    faults,           \* number of internal faults injected so far
    pure              \* harness for the pure helpers: the inputs drawn and the result

vars == <<config, myInternalState, chatState, lastOp, lastResponse, lastTurn,
          emitLog, turnLog, snapLog, recallLog, faults, pure>>

-----------------------------------------------------------------------------
(* Bounds of the model *)

MaxTurns == 2         \* afterResponse turns in Spec
MaxFaults == 1        \* injected faults in Spec
MaxPhaseTurns == 7    \* afterResponse turns in SpecPhase
MaxQuotaTurns == 21   \* afterResponse turns in SpecQuota
MaxConsentTurns == 1  \* turns with a consent issue in SpecQuota
SnapWindow == 6       \* turns whose snapshot snapLog keeps

-----------------------------------------------------------------------------
(* Generic helpers (JavaScript array semantics) *)

Min(a, b) == IF a < b THEN a ELSE b
Max(a, b) == IF a > b THEN a ELSE b

\* Array.prototype.slice(-n): the last n elements.
SliceLast(seq, n) ==
    IF n <= 0 THEN <<>>  \* slice(-0) is slice(0) in JS; no caller passes 0 here
    ELSE IF Len(seq) <= n THEN seq
    ELSE SubSeq(seq, Len(seq) - n + 1, Len(seq))

\* Array.prototype.slice(0, n): the first n elements.
SliceFirst(seq, n) == IF Len(seq) <= n THEN seq ELSE SubSeq(seq, 1, n)

\* Array.prototype.indexOf, 0-based, -1 when absent.
IndexOf(seq, x) ==
    IF \E i \in 1..Len(seq) : seq[i] = x
    THEN (CHOOSE i \in 1..Len(seq) : seq[i] = x /\ \A j \in 1..(i - 1) : seq[j] # x) - 1
    ELSE -1

RECURSIVE SumSeq(_)
SumSeq(seq) == IF seq = <<>> THEN 0 ELSE Head(seq) + SumSeq(Tail(seq))

RECURSIVE FilterSeq(_, _)
\* Array.prototype.filter with a membership test.
FilterSeq(seq, keep) ==
    IF seq = <<>> THEN <<>>
    ELSE IF Head(seq) \in keep THEN <<Head(seq)>> \o FilterSeq(Tail(seq), keep)
    ELSE FilterSeq(Tail(seq), keep)

Range(seq) == {seq[i] : i \in 1..Len(seq)}

\* A nullable number (number | null).
Null == [null |-> TRUE, val |-> 0]
Num(n) == [null |-> FALSE, val |-> n]

-----------------------------------------------------------------------------
(* Enumerations *)

phaseOrder == <<"Neutral", "Familiar", "Charged", "Intimate">>
proximityOrder == <<"Distant", "Nearby", "Touching", "Intimate">>
Proximities == Range(proximityOrder)
Tones == {"neutral", "sad", "angry", "anxious", "affection", "embarrassed",
          "jealous", "excited", "tense"}
Intensities == {"low", "medium", "high"}

-----------------------------------------------------------------------------
(* A message text, as the detectors see it.  Each field is what one        *)
(* detector's regular expressions find in the text.                        *)

PlainText == [
    tone |-> "neutral", intensity |-> "low",  \* extractEmotionSnapshot(content)
    cue |-> FALSE,          \* a transition cue (evaluateEmotionalDelta's transitionCues) is present
    scars |-> {},           \* detectMemoryEvents(content)
    evidence |-> {},        \* proximity evidence categories present
    signals |-> {},         \* escalation signal categories whose pattern has an affirmed match
    consent |-> {},         \* detectConsentIssues(content)
    subtext |-> {},         \* scoreSubtext(content).notes
    silence |-> "none",     \* which branch of scoreSilenceOrPause the text takes
    location |-> "",        \* best location candidate ("" when none scores >= 3)
    timeOfDay |-> "",       \* time-of-day phrase ("" when none)
    resolution |-> FALSE,   \* hasResolutionCue(narrative)
    beat |-> "",            \* normalized unresolved-beat snippet ("" when none)
    overlap |-> {}          \* snippets sharing >= 2 keywords with the narrative
]

-----------------------------------------------------------------------------
(* detectEscalationSignals *)

signalOrder == <<"emotional_disclosure", "dependency", "physical_closeness",
                 "physical_intimacy", "attraction_language", "love_confession",
                 "commitment_language", "affection_high">>
SignalTypes == Range(signalOrder)

SignalPhase(type) ==
    CASE type = "emotional_disclosure" -> "Familiar"
      [] type = "dependency" -> "Charged"
      [] type = "physical_closeness" -> "Charged"
      [] type = "physical_intimacy" -> "Intimate"
      [] type = "attraction_language" -> "Familiar"
      [] type = "love_confession" -> "Charged"
      [] type = "commitment_language" -> "Charged"
      [] type = "affection_high" -> "Charged"

SignalWeight(type) ==
    CASE type = "emotional_disclosure" -> 1
      [] type = "dependency" -> 2
      [] type = "physical_closeness" -> 1
      [] type = "physical_intimacy" -> 3
      [] type = "attraction_language" -> 1
      [] type = "love_confession" -> 3
      [] type = "commitment_language" -> 2
      [] type = "affection_high" -> 1

Signal(type) == [type |-> type, suggestedPhase |-> SignalPhase(type), weight |-> SignalWeight(type)]

\* The signal types of one text: the matched patterns, plus affection_high
\* when the snapshot is affection/high.  pushUnique keeps one per type.
DetectedTypes(text) ==
    (text.signals \ {"affection_high"})
        \cup (IF text.tone = "affection" /\ text.intensity = "high" THEN {"affection_high"} ELSE {})

\* The signals in the order the code pushes them.
detectEscalationSignals(text) ==
    LET types == FilterSeq(signalOrder, DetectedTypes(text))
    IN [i \in 1..Len(types) |-> Signal(types[i])]

-----------------------------------------------------------------------------
(* Phase target: Stage.afterResponse, "Escalation / phase logic" *)

\* suggestedWeights[p]: the summed weight of the signals suggesting phase p.
SuggestedWeight(signals, p) ==
    SumSeq([i \in 1..Len(signals) |->
                IF signals[i].suggestedPhase = p THEN signals[i].weight ELSE 0])

phaseThresholdByStrictness(strictnessLevel) ==
    CASE strictnessLevel = 1 -> 6
      [] strictnessLevel = 2 -> 4
      [] strictnessLevel = 3 -> 3
      [] OTHER -> 4

\* Does phase p carry enough weight?
PhaseQualifies(signals, p, strictnessLevel) ==
    SuggestedWeight(signals, p) >= phaseThresholdByStrictness(strictnessLevel)

\* The 0-based index of the highest phase with enough weight, -1 for null.
TargetIdx(signals, strictnessLevel) ==
    LET ok == {i \in 0..3 : PhaseQualifies(signals, phaseOrder[i + 1], strictnessLevel)}
    IN IF ok = {} THEN -1 ELSE CHOOSE i \in ok : \A j \in ok : j <= i

\* The signals the target is computed from: the last 5 entries of the history.
RecentSignals(signalHistory) == SliceLast(signalHistory, 5)

-----------------------------------------------------------------------------
(* evaluateProximityTransition *)

ProxIdx(p) == IndexOf(proximityOrder, p)

\* A variant that takes the first evidence category found instead of the highest.
FirstEvidence(evidence) ==
    IF evidence = {} THEN "Distant"
    ELSE CHOOSE p \in evidence : \A q \in evidence : IndexOf(proximityOrder, p) <= IndexOf(proximityOrder, q)

\* highest(): reduce from "Distant", keeping the entry with the larger index.
HighestEvidence(evidence) ==
    IF evidence = {} THEN "Distant"
    ELSE CHOOSE p \in evidence : \A q \in evidence : ProxIdx(q) <= ProxIdx(p)

\* A variant that starts the slice at the current state: order.slice(curIndex, nextIndex)
IntermediateStatesFromCurrent(curIndex, nextIndex) ==
    {proximityOrder[i + 1] : i \in {j \in 0..3 : curIndex <= j /\ j < nextIndex}}

\* order.slice(curIndex + 1, nextIndex)
IntermediateStates(curIndex, nextIndex) ==
    {proximityOrder[i + 1] : i \in {j \in 0..3 : curIndex + 1 <= j /\ j < nextIndex}}

\* current is the stored proximity ("" stands for null/undefined).
evaluateProximityTransition(evidence, current) ==
    LET cur == IF current = "" THEN "Distant" ELSE current
        next == IF evidence # {} THEN HighestEvidence(evidence) ELSE cur
        curIndex == ProxIdx(cur)
        nextIndex == ProxIdx(next)
        intermediate == IntermediateStates(curIndex, nextIndex)
        hasIntermediateEvidence == intermediate \cap evidence # {}
        skipped == nextIndex > curIndex + 1 /\ ~hasIntermediateEvidence
        changed == next # cur
    IN [from |-> cur, next |-> next, skipped |-> skipped, changed |-> changed,
        score |-> IF skipped THEN 3 ELSE IF changed THEN 1 ELSE 0,
        evidence |-> evidence,
        missing |-> IF skipped THEN intermediate ELSE {}]

-----------------------------------------------------------------------------
(* evaluateEmotionalDelta *)

intensityScore(intensity) ==
    CASE intensity = "low" -> 0 [] intensity = "medium" -> 1 [] intensity = "high" -> 2 [] OTHER -> 0

polarity(tone) ==
    IF tone \in {"affection", "excited"} THEN "pos"
    ELSE IF tone \in {"sad", "angry", "anxious", "jealous", "tense"} THEN "neg"
    ELSE "neutral"

Abs(n) == IF n < 0 THEN -n ELSE n

\* Math.round(sum / len) for sum >= 0, len > 0: halves round up.
RoundDiv(sum, len) == (2 * sum + len) \div (2 * len)

\* A variant that pushes the transition cue with a positive weight.
CueWeightPositive(hasTransitionCue) == IF hasTransitionCue THEN 2 ELSE 0

\* if (hasTransitionCue) pushWeighted(reasons, "transition_cue_present", -2)
CueWeight(hasTransitionCue) == IF hasTransitionCue THEN -2 ELSE 0

\* A variant that detects on the score alone.
DeltaDetectedByScore(score, absIntensityJump, polarityFlip, steadyPrev, curIntensity, toneChanged) ==
    score >= 3

\* const detected = score >= 3 && (... || ... || ...)
DeltaDetected(score, absIntensityJump, polarityFlip, steadyPrev, curIntensity, toneChanged) ==
    score >= 3
    /\ (\/ absIntensityJump >= 2
        \/ (polarityFlip /\ steadyPrev /\ curIntensity >= 1)
        \/ (toneChanged /\ steadyPrev /\ absIntensityJump >= 1))

evaluateEmotionalDelta(current, recent, hasTransitionCue) ==
    LET window == SliceLast(recent, 5)
    IN IF Len(window) = 0 THEN [detected |-> FALSE, score |-> 0]
       ELSE
        LET avgPrevIntensity ==
                RoundDiv(SumSeq([i \in 1..Len(window) |-> intensityScore(window[i].intensity)]),
                         Len(window))
            lastTone == window[Len(window)].tone
            curIntensity == intensityScore(current.intensity)
            toneChanged == lastTone # "" /\ lastTone # current.tone
            intensityJump == curIntensity - avgPrevIntensity
            absIntensityJump == Abs(intensityJump)
            steadyPrev == Len(window) >= 3 /\ \A i \in 1..Len(window) : window[i].tone = lastTone
            prevPolarity == polarity(lastTone)
            curPolarity == polarity(current.tone)
            polarityFlip == prevPolarity # curPolarity /\ prevPolarity # "neutral"
                            /\ curPolarity # "neutral"
            score == (IF steadyPrev THEN 1 ELSE 0)
                   + (IF toneChanged THEN 1 ELSE 0)
                   + (IF polarityFlip THEN 2 ELSE 0)
                   + (IF absIntensityJump >= 1 THEN Min(3, absIntensityJump) * 2 ELSE 0)
                   + CueWeight(hasTransitionCue)
            detected == DeltaDetected(score, absIntensityJump, polarityFlip, steadyPrev,
                                      curIntensity, toneChanged)
        IN [detected |-> detected, score |-> score]

-----------------------------------------------------------------------------
(* detectConsentIssues, scoreSubtext, scoreSilenceOrPause *)

ConsentLabels == {"assigns emotions to the user",
                  "forces decisions/consent onto the user",
                  "coercive physical action",
                  "describes internal monologue for the user",
                  "describes involuntary bodily response for the user"}

\* Stage.afterResponse: weights[issue] ?? 2
ConsentWeight(issue) ==
    CASE issue = "assigns emotions to the user" -> 2
      [] issue = "forces decisions/consent onto the user" -> 6
      [] issue = "coercive physical action" -> 7
      [] issue = "describes internal monologue for the user" -> 2
      [] issue = "describes involuntary bodily response for the user" -> 2
      [] OTHER -> 2

RECURSIVE SumOver(_, _)
\* The sum of Op-free weights over a finite set, by a weight function given as a record.
SumOver(set, weight) ==
    IF set = {} THEN 0
    ELSE LET x == CHOOSE y \in set : TRUE
         IN weight[x] + SumOver(set \ {x}, weight)

ConsentScore(issues) == SumOver(issues, [i \in issues |-> ConsentWeight(i)])

\* Stage.afterResponse: isCritical
ConsentIsCritical(issues) ==
    \E i \in issues : i = "coercive physical action"
                      \/ i = "forces decisions/consent onto the user"

SubtextLabels == {"hesitation/uncertainty", "avoidance", "guarded interest",
                  "fear of rejection", "nervous tell"}

SubtextWeight(note) ==
    CASE note = "hesitation/uncertainty" -> 1
      [] note = "avoidance" -> 2
      [] note = "guarded interest" -> 1
      [] note = "fear of rejection" -> 2
      [] note = "nervous tell" -> 1

SubtextScore(notes) == SumOver(notes, [n \in notes |-> SubtextWeight(n)])

subtextThresholdByStrictness(strictnessLevel) ==
    CASE strictnessLevel = 1 -> 99 [] strictnessLevel = 2 -> 2 [] strictnessLevel = 3 -> 1 [] OTHER -> 2

\* scoreSilenceOrPause by the branch the text takes:
\*   "action"  the whole trimmed content is one stage-action span
\*   "empty"   the trimmed content is empty
\*   "brief_nc" / "brief_curt"  short and non-committal / curt
\*   "pause"   a pause cue is present,  "none" anything else
SilenceKinds == {"none", "action", "empty", "brief_nc", "brief_curt", "pause"}

scoreSilenceOrPause(kind) ==
    CASE kind = "action" -> [note |-> "", score |-> 0]
      [] kind = "empty" -> [note |-> "Silence detected", score |-> 3]
      [] kind = "brief_nc" -> [note |-> "Brief/non-committal reply", score |-> 2]
      [] kind = "brief_curt" -> [note |-> "Brief/non-committal reply", score |-> 2]
      [] kind = "pause" -> [note |-> "Pause noted", score |-> 2]
      [] OTHER -> [note |-> "", score |-> 0]

-----------------------------------------------------------------------------
(* detectMemoryEvents, recallMemoryScar, detectDrift *)

scarOrder == <<"confession", "betrayal", "rejection", "conflict">>

\* Array.from(hits): the events in insertion order.
detectMemoryEvents(text) == FilterSeq(scarOrder, text.scars)

\* A variant that recalls the newest scar whether or not it was recalled before.
recallMemoryScarAlways(scars, lastScarRecallIdx) ==
    IF Len(scars) = 0 THEN [note |-> "", nextIdx |-> lastScarRecallIdx]
    ELSE [note |-> "Recall", nextIdx |-> Len(scars) - 1]

\* lastScarRecallIdx is -1 for null/undefined (lastScarRecallIdx ?? -1).
recallMemoryScar(scars, lastScarRecallIdx) ==
    IF Len(scars) = 0 THEN [note |-> "", nextIdx |-> lastScarRecallIdx]
    ELSE LET priorIdx == lastScarRecallIdx
             targetIdx == Len(scars) - 1
         IN IF targetIdx = priorIdx THEN [note |-> "", nextIdx |-> priorIdx]
            ELSE [note |-> "Recall", nextIdx |-> targetIdx]

\* A scar as the log holds it (its text is the message's, left out here).
Scar(event, now) == [event |-> event, at |-> now]

\* A variant that never trims the log.
LogScarsUncapped(memoryScars, scarEvents, now, depth) ==
    memoryScars \o [i \in 1..Len(scarEvents) |-> Scar(scarEvents[i], now)]

\* (memoryScars || []).concat(scarEvents.map(...)).slice(-depth)
LogScars(memoryScars, scarEvents, now, depth) ==
    SliceLast(memoryScars \o [i \in 1..Len(scarEvents) |-> Scar(scarEvents[i], now)], depth)

driftWindow(strictness) ==
    IF strictness = 3 THEN 8 ELSE IF strictness = 1 THEN 15 ELSE 12

\* recentSignalWeight and proximityChanged are optional parameters: an absent
\* recentSignalWeight counts as 0, an absent proximityChanged as not true.
detectDrift(recentEmotions, phaseHistory, strictness, turnIndex, driftNotes, recentSignalWeight, proximityChanged) ==
    LET recentDriftNotes == {i \in 1..Len(driftNotes) : turnIndex - driftNotes[i] < driftWindow(strictness)}
        lastPhases == SliceLast(phaseHistory, 3)
        phaseStable == Len(lastPhases) >= 2
                       /\ Cardinality({lastPhases[i].phase : i \in 1..Len(lastPhases)}) = 1
        emos == SliceLast(recentEmotions, 5)
        emotionalStagnant == Len(emos) >= 3
                             /\ Cardinality({emos[i].tone : i \in 1..Len(emos)}) <= 1
        noMomentum == recentSignalWeight <= 0 /\ ~proximityChanged
    IN recentDriftNotes = {} /\ phaseStable /\ emotionalStagnant /\ noMomentum

-----------------------------------------------------------------------------
(* Scene tracking: updateSceneFromMessage, summarizeScene *)

\* Raw beat snippets of the model and what normalizeBeatSnippet makes of them
\* (lower case, whitespace collapsed, quotes removed).
normalizeBeatSnippet(snippet) ==
    CASE snippet = "Silence lingers" -> "silence lingers"
      [] snippet = "silence  lingers" -> "silence lingers"
      [] snippet = "An awkward silence lingers between them, unfinished and unspoken."
            -> "an awkward silence lingers between them, unfinished and unspoken."
      [] snippet = "Their argument remains unresolved, hanging between them."
            -> "their argument remains unresolved, hanging between them."
      [] snippet = "Their 'argument' remains unresolved, hanging between them."
            -> "their argument remains unresolved, hanging between them."
      [] snippet = "The promise is still unspoken."
            -> "the promise is still unspoken."
      [] OTHER -> snippet

NullScene == [isNull |-> TRUE, location |-> "", timeOfDay |-> "", lingeringEmotion |-> "",
              unresolvedBeats |-> <<>>, resolvedBeats |-> <<>>]

\* A variant of the fallback that takes the oldest beat: unresolved[0], then shift().
FallbackIndexOldest(unresolved) == 1

\* The beat the fallback resolves: unresolved[unresolved.length - 1], then pop().
FallbackIndex(unresolved) == Len(unresolved)

\* resolveMatchingBeats: overlap is the set of normalized snippets that share
\* at least 2 keywords with the narrative.
resolveMatchingBeats(beats, overlap, now) ==
    IF Len(beats) = 0 THEN [unresolved |-> <<>>, resolved |-> <<>>]
    ELSE
        LET hit == {i \in 1..Len(beats) : normalizeBeatSnippet(beats[i].snippet) \in overlap}
            Pick(idxs) == LET RECURSIVE Go(_)
                              Go(i) == IF i > Len(beats) THEN <<>>
                                       ELSE IF i \in idxs THEN <<beats[i]>> \o Go(i + 1)
                                       ELSE Go(i + 1)
                          IN Go(1)
            resolved == [i \in 1..Cardinality(hit) |-> [Pick(hit)[i] EXCEPT !.lastSeenAt = now]]
            unresolved == Pick((1..Len(beats)) \ hit)
        IN IF Len(resolved) = 0 /\ Len(unresolved) > 0
           THEN \* no topical match: resolve only the latest beat
                LET latest == FallbackIndex(unresolved)
                IN [unresolved |-> Pick(((1..Len(beats)) \ hit) \ {latest}),
                    resolved |-> <<[unresolved[latest] EXCEPT !.lastSeenAt = now]>>]
           ELSE [unresolved |-> unresolved, resolved |-> resolved]

\* A variant that compares the new snippet with the stored snippets as they are.
ExistingBeatsRaw(unresolvedBeats) ==
    {unresolvedBeats[i].snippet : i \in 1..Len(unresolvedBeats)}

\* existing: the normalized snippets of the unresolved beats.
ExistingBeats(unresolvedBeats) ==
    {normalizeBeatSnippet(unresolvedBeats[i].snippet) : i \in 1..Len(unresolvedBeats)}

\* A variant that drops the beats resolved in this turn.
ResolvedAfterDropped(resolvedBeats, resolved) == SliceLast(resolvedBeats, 20)

\* (scene.resolvedBeats || []).concat(resolved.resolved).slice(-20)
ResolvedAfter(resolvedBeats, resolved) == SliceLast(resolvedBeats \o resolved, 20)

updateSceneFromMessage(prev, text, now) ==
    LET s1 == [prev EXCEPT !.isNull = FALSE,
                           !.location = IF text.location # "" THEN text.location ELSE @,
                           !.timeOfDay = IF text.timeOfDay # "" THEN text.timeOfDay ELSE @,
                           !.lingeringEmotion = IF text.tone # "neutral" THEN text.tone ELSE @]
    IN IF text.resolution
       THEN LET r == resolveMatchingBeats(s1.unresolvedBeats, text.overlap, now)
            IN [s1 EXCEPT !.unresolvedBeats = r.unresolved,
                          !.resolvedBeats = ResolvedAfter(@, r.resolved)]
       ELSE IF text.beat = "" THEN s1
       ELSE LET normalized == normalizeBeatSnippet(text.beat)
                existing == ExistingBeats(s1.unresolvedBeats)
            IN IF normalized \notin existing
               THEN [s1 EXCEPT !.unresolvedBeats =
                        @ \o <<[snippet |-> text.beat, createdAt |-> now, lastSeenAt |-> now]>>]
               ELSE [s1 EXCEPT !.unresolvedBeats =
                        [i \in 1..Len(@) |->
                            IF normalizeBeatSnippet(@[i].snippet) # normalized THEN @[i]
                            ELSE [@[i] EXCEPT !.lastSeenAt = now]]]

\* summarizeScene: <<>> for null, else the parts the summary is joined from.
summarizeScene(scene) ==
    IF scene.isNull THEN <<>>
    ELSE IF scene.location = "" /\ scene.timeOfDay = "" /\ scene.lingeringEmotion = ""
            /\ Len(scene.unresolvedBeats) = 0 THEN <<>>
    ELSE <<scene.location, scene.timeOfDay, scene.lingeringEmotion, Len(scene.unresolvedBeats)>>

-----------------------------------------------------------------------------
(* Configuration: normalizeConfig (src/src/config_schema.ts) *)

clamp(n, min, max) == Max(min, Min(max, n))

\* The raw configuration holds numbers (integers here, so Math.floor is the
\* identity), booleans and a nullable quota override.
DefaultRawConfig == [
    enabled |-> TRUE, strictness |-> 2, memory_depth |-> 15,
    ui_enabled |-> TRUE, ui_max_notes |-> 10, max_ui_notes_per_20 |-> Null,
    note_scene_summary |-> TRUE, note_emotion_delta |-> TRUE, note_phase |-> TRUE,
    note_proximity |-> TRUE, note_consent |-> TRUE, note_subtext |-> TRUE,
    note_silence |-> TRUE, note_drift |-> TRUE, note_scar_recall |-> TRUE,
    prompt_injection_enabled |-> TRUE,
    unresolved_beats_max_history |-> 10, tune_ui_note_parts |-> Null]

normalizeConfig(src) ==
    [src EXCEPT
        !.strictness = clamp(@, 1, 3),
        !.memory_depth = clamp(@, 5, 30),
        !.ui_max_notes = clamp(@, 1, 50),
        !.max_ui_notes_per_20 =
            IF @.null THEN Null
            ELSE IF @.val < 0 THEN Null ELSE Num(clamp(@.val, 0, 20))]

\* The newer schema's unresolved_beats_max_history: clamp(Math.floor(n), 0, 20).
unresolvedBeatsMaxHistory(src) == clamp(src.unresolved_beats_max_history, 0, 20)

\* tune_ui_note_parts: null, or clamp(Math.floor(n), 1, 6).
tuneUiNoteParts(src) ==
    IF src.tune_ui_note_parts.null THEN Null ELSE Num(clamp(src.tune_ui_note_parts.val, 1, 6))

\* allowedUiNotesPer20: the override when set, otherwise by strictness.
allowedUiNotesPer20(effectiveConfig) ==
    IF ~effectiveConfig.max_ui_notes_per_20.null
    THEN effectiveConfig.max_ui_notes_per_20.val
    ELSE CASE effectiveConfig.strictness = 1 -> 0
           [] effectiveConfig.strictness = 2 -> 2
           [] effectiveConfig.strictness = 3 -> 6
           [] OTHER -> 0

-----------------------------------------------------------------------------
(* Message-level state *)

null == "null"

\* The fields of MessageStateType.  present holds the names of the fields
\* the object has; a field it lacks holds the value the code reads for it
\* (x || default).
FieldNames == {"turnIndex", "lastAfterResponseAt", "lastBeforePromptAt", "lastEmotions",
               "memoryScars", "lastScarRecallIdx", "proximity", "phase",
               "proximityHistory", "phaseHistory", "consentAlerts", "silenceHistory",
               "driftNotes", "overlayNotes", "signalHistory", "lastAnnotations",
               "systemNoteHistory", "lastSceneSummary", "pendingPromptNotes"}

EmptyState == [
    present |-> {},
    turnIndex |-> 0, lastAfterResponseAt |-> 0, lastBeforePromptAt |-> 0,
    lastEmotions |-> <<>>, memoryScars |-> <<>>, lastScarRecallIdx |-> -1,
    proximity |-> "Distant", phase |-> "Neutral",
    proximityHistory |-> <<>>, phaseHistory |-> <<>>, consentAlerts |-> <<>>,
    silenceHistory |-> <<>>, driftNotes |-> <<>>, overlayNotes |-> <<>>,
    signalHistory |-> <<>>, lastAnnotations |-> <<>>, systemNoteHistory |-> <<>>,
    lastSceneSummary |-> <<>>, pendingPromptNotes |-> <<>>]

\* Stage.constructor with messageState == null.
FreshState == [EmptyState EXCEPT
    !.present = {"lastEmotions", "memoryScars", "proximity", "phase", "overlayNotes"}]

\* this.myInternalState.f = v
Put(s, f, v) == [s EXCEPT ![f] = v, !.present = @ \cup {f}]

\* {...a, ...b}: the fields b has replace those of a.
Spread(a, b) ==
    [f \in DOMAIN a |->
        IF f = "present" THEN a.present \cup b.present
        ELSE IF f \in b.present THEN b[f] ELSE a[f]]

-----------------------------------------------------------------------------
(* Note candidates and their selection (Stage.afterResponse) *)

Candidate(id, score, critical) == [id |-> id, score |-> score, critical |-> critical]

\* The sort key: Number(Boolean(c.critical)) * 100 + c.score
SortKey(c) == (IF c.critical THEN 1 ELSE 0) * 100 + c.score

RECURSIVE SortDesc(_)
\* Array.prototype.sort with (a, b) => key(b) - key(a): descending by key, stable.
SortDesc(seq) ==
    IF seq = <<>> THEN <<>>
    ELSE LET i == CHOOSE k \in 1..Len(seq) :
                    /\ \A j \in 1..Len(seq) : SortKey(seq[j]) <= SortKey(seq[k])
                    /\ \A j \in 1..(k - 1) : SortKey(seq[j]) < SortKey(seq[k])
             rest == [j \in 1..(Len(seq) - 1) |-> IF j < i THEN seq[j] ELSE seq[j + 1]]
         IN <<seq[i]>> \o SortDesc(rest)

\* A variant that lets every candidate through, whatever the quota says.
EligibleAlways(c, canEmitUiNote) == TRUE

\* A variant without the bypass for critical candidates.
EligibleWithoutBypass(c, canEmitUiNote) == canEmitUiNote

\* The filter's test: (c) => c.critical || canEmitUiNote
Eligible(c, canEmitUiNote) == c.critical \/ canEmitUiNote

RECURSIVE FilterEligible(_, _)
\* candidates.filter((c) => c.critical || canEmitUiNote)
FilterEligible(candidates, canEmitUiNote) ==
    IF candidates = <<>> THEN <<>>
    ELSE IF Eligible(Head(candidates), canEmitUiNote)
         THEN <<Head(candidates)>> \o FilterEligible(Tail(candidates), canEmitUiNote)
         ELSE FilterEligible(Tail(candidates), canEmitUiNote)

maxParts(strictnessLevel) == IF strictnessLevel >= 3 THEN 4 ELSE 2

\* The candidates that make up the emitted note (<<>>: no note).
SelectNote(candidates, canEmitUiNote, effectiveConfig) ==
    IF effectiveConfig.ui_enabled
    THEN SliceFirst(SortDesc(FilterEligible(candidates, canEmitUiNote)),
                    maxParts(effectiveConfig.strictness))
    ELSE <<>>

\* systemNoteHistory.filter((idx) => idx > turnIndex - 20)
RecentSystemNotes(systemNoteHistory, turnIndex) ==
    LET RECURSIVE Go(_)
        Go(h) == IF h = <<>> THEN <<>>
                 ELSE IF Head(h) > turnIndex - 20 THEN <<Head(h)>> \o Go(Tail(h))
                 ELSE Go(Tail(h))
    IN Go(systemNoteHistory)

\* What the quota history becomes when a note is emitted in this turn.
QuotaHistoryAfterEmit(recentSystemNotes, turnIndex) ==
    SliceLast(recentSystemNotes \o <<turnIndex>>, 100)

deltaThresholdByStrictness(strictnessLevel) ==
    CASE strictnessLevel = 1 -> 5 [] strictnessLevel = 2 -> 3 [] strictnessLevel = 3 -> 2 [] OTHER -> 3

\* A variant that allows one more whiplash note per window.
allowedByStrictnessPlusOne(strictnessLevel) ==
    CASE strictnessLevel = 1 -> 2 [] strictnessLevel = 2 -> 3 [] strictnessLevel = 3 -> 4 [] OTHER -> 3

allowedByStrictness(strictnessLevel) ==
    CASE strictnessLevel = 1 -> 1 [] strictnessLevel = 2 -> 2 [] strictnessLevel = 3 -> 3 [] OTHER -> 2

-----------------------------------------------------------------------------
(* Stage.afterResponse, enabled path, step by step.  A step takes the      *)
(* turn's context (the message state, the scene, the locals of the turn)   *)
(* and returns it as the step's statements leave it.                       *)

\* A variant that jumps straight to the target phase.
NextPhaseIdxJump(currentIndex, targetIdx) == targetIdx

\* Math.min(currentIndex + 1, targetIdx)
NextPhaseIdx(currentIndex, targetIdx) == Min(currentIndex + 1, targetIdx)

\* A variant that warns whenever the target is ahead.
IsPhaseSkipWheneverAhead(currentIndex, targetIdx) == targetIdx > currentIndex

\* if (targetIdx > currentIndex + 1) escalationWarning = ...
IsPhaseSkip(currentIndex, targetIdx) == targetIdx > currentIndex + 1

\* A variant that records the phase whenever there is a target, advance or not.
PhaseStepRecordsEveryTarget(s, targetIdx, turnIndex) ==
    LET currentPhase == IF s.phase = "" THEN "Neutral" ELSE s.phase
        currentIndex == Max(0, IndexOf(phaseOrder, currentPhase))
        nextIdx == IF targetIdx > currentIndex THEN NextPhaseIdx(currentIndex, targetIdx)
                   ELSE currentIndex
        nextPhase == phaseOrder[nextIdx + 1]
    IN IF targetIdx >= 0
       THEN [state |-> Put(Put(s, "phase", nextPhase), "phaseHistory",
                           SliceLast(s.phaseHistory \o <<[phase |-> nextPhase, at |-> turnIndex]>>, 50)),
             escalationWarning |-> IsPhaseSkip(currentIndex, targetIdx)]
       ELSE [state |-> s, escalationWarning |-> FALSE]

\* Step 5: the phase state machine.
PhaseStep(s, targetIdx, turnIndex) ==
    LET currentPhase == IF s.phase = "" THEN "Neutral" ELSE s.phase
        currentIndex == Max(0, IndexOf(phaseOrder, currentPhase))
    IN IF targetIdx >= 0 /\ targetIdx > currentIndex
       THEN LET nextIdx == NextPhaseIdx(currentIndex, targetIdx)
                nextPhase == phaseOrder[nextIdx + 1]
            IN [state |-> IF nextPhase # currentPhase
                          THEN Put(Put(s, "phase", nextPhase), "phaseHistory",
                                   SliceLast(s.phaseHistory \o <<[phase |-> nextPhase, at |-> turnIndex]>>, 50))
                          ELSE s,
                escalationWarning |-> IsPhaseSkip(currentIndex, targetIdx)]
       ELSE [state |-> s, escalationWarning |-> FALSE]

\* The turn's context after lines 261-302: the turn index is written, the
\* quota is read, the text is analysed.  s is the message state, st the
\* message states left by the steps so far (st[k + 1]: after step k).
TurnStart(s, scene, cfgRaw, text) ==
    LET effectiveConfig == normalizeConfig(cfgRaw)
        turnIndex == s.turnIndex + 1
        s0 == Put(Put(s, "turnIndex", turnIndex), "lastAfterResponseAt", turnIndex)
        recentSystemNotes == RecentSystemNotes(s0.systemNoteHistory, turnIndex)
    IN [effectiveConfig |-> effectiveConfig,
        strictnessLevel |-> effectiveConfig.strictness,
        text |-> text,
        turnIndex |-> turnIndex,
        s |-> s0,
        st |-> <<s0>>,
        scene |-> scene,
        sceneBefore |-> scene,
        recentSystemNotes |-> recentSystemNotes,
        quotaBefore |-> Len(recentSystemNotes),
        canEmitUiNote |-> effectiveConfig.ui_enabled
                          /\ Len(recentSystemNotes) < allowedUiNotesPer20(effectiveConfig),
        snapshot |-> [tone |-> text.tone, intensity |-> text.intensity],
        priorEmotions |-> s0.lastEmotions,
        proximityResult |-> evaluateProximityTransition({}, s0.proximity),
        signalTypes |-> {},
        currentIdx |-> 0,
        targetIdx |-> -1,
        escalationWarning |-> FALSE,
        deltaRecent |-> <<>>,
        recalled |-> <<>>,
        candidates |-> <<>>,
        selected |-> <<>>,
        emitted |-> FALSE]

\* The end of a step: s is the message state the step leaves.
StepDone(c, s) == [c EXCEPT !.s = s, !.st = Append(@, s)]

\* addCandidate(c)
AddCandidate(c, candidate) == [c EXCEPT !.candidates = Append(@, candidate)]

\* Step 1, lines 304-312: memory scars.
StepScars(c) ==
    LET scarEvents == detectMemoryEvents(c.text)
    IN IF Len(scarEvents) > 0
       THEN StepDone(c, Put(c.s, "memoryScars",
                LogScars(c.s.memoryScars, scarEvents, c.turnIndex, c.effectiveConfig.memory_depth)))
       ELSE StepDone(c, c.s)

\* Step 2, lines 314-319: the scene (chat state).
StepScene(c) ==
    StepDone([c EXCEPT !.scene = updateSceneFromMessage(c.scene, c.text, c.turnIndex)], c.s)

\* A variant that never trims the proximity history.
StepProximityUncapped(c) ==
    LET proximityResult == evaluateProximityTransition(c.text.evidence, c.s.proximity)
        c1 == [c EXCEPT !.proximityResult = proximityResult]
    IN IF proximityResult.changed
       THEN StepDone(c1, Put(Put(c.s, "proximity", proximityResult.next), "proximityHistory",
                c.s.proximityHistory \o <<[state |-> proximityResult.next, at |-> c.turnIndex]>>))
       ELSE StepDone(c1, c.s)

\* Step 3, lines 321-331: proximity.
StepProximity(c) ==
    LET proximityResult == evaluateProximityTransition(c.text.evidence, c.s.proximity)
        c1 == [c EXCEPT !.proximityResult = proximityResult]
    IN IF proximityResult.changed
       THEN StepDone(c1, Put(Put(c.s, "proximity", proximityResult.next), "proximityHistory",
                SliceLast(c.s.proximityHistory
                          \o <<[state |-> proximityResult.next, at |-> c.turnIndex]>>, 50)))
       ELSE StepDone(c1, c.s)

\* Step 4, lines 337-361: the signal history and the target phase.
StepSignals(c) ==
    LET signals == detectEscalationSignals(c.text)
        s4 == Put(c.s, "signalHistory", SliceLast(c.s.signalHistory \o signals, 20))
        currentPhase == IF s4.phase = "" THEN "Neutral" ELSE s4.phase
    IN StepDone([c EXCEPT !.signalTypes = DetectedTypes(c.text),
                          !.currentIdx = Max(0, IndexOf(phaseOrder, currentPhase)),
                          !.targetIdx = TargetIdx(RecentSignals(s4.signalHistory), c.strictnessLevel)],
                s4)

\* Step 5, lines 363-378: the phase.
StepPhase(c) ==
    LET ph == PhaseStep(c.s, c.targetIdx, c.turnIndex)
    IN StepDone([c EXCEPT !.escalationWarning = ph.escalationWarning], ph.state)

\* Step 6, lines 380-401: the emotional delta (whiplash) note.
StepDelta(c) ==
    LET delta == evaluateEmotionalDelta(c.snapshot, c.priorEmotions, c.text.cue)
        c0 == [c EXCEPT !.deltaRecent = c.priorEmotions]
        deltaGate == c.effectiveConfig.note_emotion_delta /\ c.effectiveConfig.enabled
                     /\ c.strictnessLevel >= 2 /\ c.canEmitUiNote /\ delta.detected
                     /\ delta.score >= deltaThresholdByStrictness(c.strictnessLevel)
        recentCount == Cardinality({i \in 1..Len(c.s.lastAnnotations) :
                                        c.s.lastAnnotations[i] > c.turnIndex - 20})
    IN IF ~deltaGate THEN StepDone(c0, c.s)
       ELSE IF recentCount < allowedByStrictness(c.strictnessLevel)
       THEN StepDone(AddCandidate(c0, Candidate("emotion_delta", delta.score, FALSE)),
                     Put(c.s, "lastAnnotations", SliceLast(c.s.lastAnnotations \o <<c.turnIndex>>, 20)))
       ELSE StepDone(c0, Put(c.s, "lastAnnotations", c.s.lastAnnotations))

\* A variant that never trims the emotion history.
AppendEmotionUncapped(priorEmotions, snapshot) == priorEmotions \o <<snapshot>>

\* priorEmotions.concat(snapshot).slice(-5)
AppendEmotion(priorEmotions, snapshot) == SliceLast(priorEmotions \o <<snapshot>>, 5)

\* Step 7, lines 404-413: the emotion history, then the skip candidates.
StepEmotions(c) ==
    LET c1 == IF c.effectiveConfig.note_phase /\ c.escalationWarning
              THEN AddCandidate(c, Candidate("phase_skip", 3, FALSE)) ELSE c
        c2 == IF c.effectiveConfig.note_proximity /\ c.proximityResult.skipped
              THEN AddCandidate(c1, Candidate("proximity_skip", 3, FALSE)) ELSE c1
    IN StepDone(c2, Put(c.s, "lastEmotions", AppendEmotion(c.priorEmotions, c.snapshot)))

\* Step 8, lines 415-433: consent.
StepConsent(c) ==
    IF c.effectiveConfig.note_consent /\ c.text.consent # {}
    THEN StepDone(AddCandidate(c, Candidate("consent", ConsentScore(c.text.consent),
                                            ConsentIsCritical(c.text.consent))),
                  Put(c.s, "consentAlerts", SliceLast(c.s.consentAlerts \o <<c.turnIndex>>, 50)))
    ELSE StepDone(c, c.s)

\* Step 9, lines 435-451: subtext (no state), then silence.
StepSilence(c) ==
    LET subtextNote == c.effectiveConfig.note_subtext /\ c.strictnessLevel >= 2
                       /\ c.text.subtext # {}
                       /\ SubtextScore(c.text.subtext) >= subtextThresholdByStrictness(c.strictnessLevel)
        c1 == IF subtextNote
              THEN AddCandidate(c, Candidate("subtext", SubtextScore(c.text.subtext), FALSE)) ELSE c
        silence == scoreSilenceOrPause(c.text.silence)
    IN IF c.effectiveConfig.note_silence /\ c.strictnessLevel >= 3 /\ silence.note # ""
       THEN StepDone(AddCandidate(c1, Candidate("silence", silence.score, FALSE)),
                     Put(c.s, "silenceHistory", SliceLast(c.s.silenceHistory \o <<c.turnIndex>>, 50)))
       ELSE StepDone(c1, c.s)

\* Step 10, lines 453-466: drift.  The call passes neither recentSignalWeight
\* nor proximityChanged.
StepDrift(c) ==
    IF c.effectiveConfig.note_drift /\ c.strictnessLevel >= 3
       /\ detectDrift(c.priorEmotions, c.s.phaseHistory, c.strictnessLevel, c.turnIndex, c.s.driftNotes,
                      0, FALSE)
    THEN StepDone(AddCandidate(c, Candidate("drift", 2, FALSE)),
                  Put(c.s, "driftNotes", SliceLast(c.s.driftNotes \o <<c.turnIndex>>, 50)))
    ELSE StepDone(c, c.s)

\* Step 11, lines 468-475: scar recall.
StepRecall(c) ==
    LET recall == recallMemoryScar(c.s.memoryScars, c.s.lastScarRecallIdx)
    IN IF c.effectiveConfig.note_scar_recall /\ c.strictnessLevel >= 3 /\ recall.note # ""
       THEN StepDone(AddCandidate([c EXCEPT !.recalled = <<c.s.memoryScars[recall.nextIdx + 1]>>],
                                  Candidate("scar_recall", 1, FALSE)),
                     Put(c.s, "lastScarRecallIdx", recall.nextIdx))
       ELSE StepDone(c, c.s)

\* Step 12, lines 477-497: the selection and the note feed.
StepEmit(c) ==
    LET selected == SelectNote(c.candidates, c.canEmitUiNote, c.effectiveConfig)
        emitted == c.effectiveConfig.ui_enabled /\ Len(selected) > 0
        c1 == [c EXCEPT !.selected = selected, !.emitted = emitted]
    IN IF emitted
       THEN StepDone(c1, Put(Put(c.s, "overlayNotes",
                                 SliceLast(c.s.overlayNotes
                                           \o <<[text |-> [i \in 1..Len(selected) |-> selected[i].id],
                                                 at |-> c.turnIndex]>>,
                                           c.effectiveConfig.ui_max_notes)),
                             "systemNoteHistory",
                             QuotaHistoryAfterEmit(c.recentSystemNotes, c.turnIndex)))
       ELSE StepDone(c1, c.s)

LastStep == 12

Step(c, k) ==
    CASE k = 1 -> StepScars(c)
      [] k = 2 -> StepScene(c)
      [] k = 3 -> StepProximity(c)
      [] k = 4 -> StepSignals(c)
      [] k = 5 -> StepPhase(c)
      [] k = 6 -> StepDelta(c)
      [] k = 7 -> StepEmotions(c)
      [] k = 8 -> StepConsent(c)
      [] k = 9 -> StepSilence(c)
      [] k = 10 -> StepDrift(c)
      [] k = 11 -> StepRecall(c)
      [] k = 12 -> StepEmit(c)

RECURSIVE RunSteps(_, _)
\* Steps k..LastStep in order, each on the context the one before it left.
RunSteps(c, k) ==
    IF k > LastStep THEN c
    ELSE CHOOSE r \in {RunSteps(next, k + 1) : next \in {Step(c, k)}} : TRUE

\* The whole enabled path: the context after the last step.
AfterResponseTrace(s, scene, cfgRaw, text) ==
    CHOOSE r \in {RunSteps(c, 1) : c \in {TurnStart(s, scene, cfgRaw, text)}} : TRUE


-----------------------------------------------------------------------------
(* Stage.beforePrompt and Stage.setState *)

\* The enabled path of beforePrompt: the message state it leaves.
BeforePromptState(s, scene, cfgRaw) ==
    LET effectiveConfig == normalizeConfig(cfgRaw)
        s0 == Put(s, "lastBeforePromptAt", s.turnIndex)
        summary == summarizeScene(scene)
    IN IF effectiveConfig.ui_enabled /\ effectiveConfig.note_scene_summary
          /\ effectiveConfig.strictness >= 2 /\ ~scene.isNull
          /\ summary # <<>> /\ s0.lastSceneSummary # summary
       THEN Put(Put(s0, "overlayNotes",
                    SliceLast(s0.overlayNotes \o <<[text |-> <<"scene_summary">>, at |-> s.turnIndex]>>,
                              effectiveConfig.ui_max_notes)),
                "lastSceneSummary", summary)
       ELSE s0

\* The systemMessage beforePrompt returns on its enabled path.
BeforePromptSystemMessage(s, cfgRaw) == null

\* A variant of setState that starts the restored branch from an empty scene.
SetStateSceneReset(scene, blob) == NullScene

\* Stage.setState assigns myInternalState and _effectiveConfig only: the
\* chat state it leaves is the one it found.
SetStateScene(scene, blob) == scene

\* Stage.setState with a non-null blob.
SetStateResult(s, blob, cfgRaw) ==
    LET effectiveConfig == normalizeConfig(cfgRaw)
        m == Spread(s, blob)
        \* overlayNotes is set to [] when it is no array, then capped
        n == Put(m, "overlayNotes", SliceLast(m.overlayNotes, effectiveConfig.ui_max_notes))
    IN [n EXCEPT !.memoryScars = SliceLast(@, effectiveConfig.memory_depth),
                 !.lastEmotions = SliceLast(@, 5)]

-----------------------------------------------------------------------------
(* The responses the handlers return *)

\* return {...} at the end of a handler's try block and in its disabled branch
Response(handler, path, systemMessage) ==
    [handler |-> handler, path |-> path, modifiedMessage |-> null,
     error |-> null, systemMessage |-> systemMessage]

\* A variant of the catch block that surfaces the error.
CatchResponseWithError(handler) ==
    [handler |-> handler, path |-> "exception", modifiedMessage |-> null,
     error |-> "internal error", systemMessage |-> null]

\* return {...} in the catch block
CatchResponse(handler) ==
    [handler |-> handler, path |-> "exception", modifiedMessage |-> null,
     error |-> null, systemMessage |-> null]

NoTurn == [kind |-> "none"]

\* What is observed of an afterResponse turn.
TurnRecord(kind, s, tr) ==
    [kind |-> kind,
     turnIndex |-> tr.turnIndex,
     phaseBefore |-> s.phase,
     phaseHistoryBefore |-> s.phaseHistory,
     quotaBefore |-> tr.quotaBefore,
     canEmitUiNote |-> tr.canEmitUiNote,
     currentIdx |-> tr.currentIdx,
     targetIdx |-> tr.targetIdx,
     escalationWarning |-> tr.escalationWarning,
     proximityResult |-> tr.proximityResult,
     candidates |-> tr.candidates,
     selected |-> tr.selected,
     emitted |-> tr.emitted,
     proximityBefore |-> s.proximity,
     scarsBefore |-> s.memoryScars,
     recallIdxBefore |-> s.lastScarRecallIdx,
     scarEvents |-> detectMemoryEvents(tr.text),
     recalled |-> tr.recalled,
     emotionsBefore |-> s.lastEmotions,
     snapshot |-> tr.snapshot,
     deltaRecent |-> tr.deltaRecent,
     unresolvedBefore |-> tr.sceneBefore.unresolvedBeats,
     resolvedBefore |-> tr.sceneBefore.resolvedBeats,
     resolution |-> tr.text.resolution,
     beat |-> tr.text.beat,
     overlap |-> tr.text.overlap,
     evidence |-> tr.text.evidence]

\* What is observed of a setState call.
NavRecord(blob, scene) == [kind |-> "setState", blob |-> blob, sceneBefore |-> scene]

\* What is observed of an afterResponse turn that ended in the catch block.
FaultRecord(s, scene, tr) ==
    [kind |-> "fault", turnIndex |-> tr.turnIndex, stateBefore |-> s, sceneBefore |-> scene]

\* What is observed of a beforePrompt call.
PromptRecord(s) == [kind |-> "prompt", pendingBefore |-> s.pendingPromptNotes]

HasNonCritical(selected) == \E i \in 1..Len(selected) : ~selected[i].critical
HasCritical(selected) == \E i \in 1..Len(selected) : selected[i].critical

-----------------------------------------------------------------------------
(* Actions *)

Enabled == normalizeConfig(config).enabled

\* A variant that tests enabled after the turn index is written.
AfterResponseDisabledCounting ==
    /\ ~Enabled
    /\ lastOp' = "afterResponse"
    /\ lastResponse' = Response("afterResponse", "disabled", null)
    /\ lastTurn' = NoTurn
    /\ myInternalState' = Put(myInternalState, "turnIndex", myInternalState.turnIndex + 1)
    /\ UNCHANGED <<config, chatState, emitLog, turnLog, snapLog, recallLog, faults, pure>>

\* afterResponse, disabled: the state is returned as it is.
AfterResponseDisabled ==
    /\ ~Enabled
    /\ lastOp' = "afterResponse"
    /\ lastResponse' = Response("afterResponse", "disabled", null)
    /\ lastTurn' = NoTurn
    /\ UNCHANGED <<config, myInternalState, chatState, emitLog, turnLog, snapLog, recallLog, faults, pure>>

\* afterResponse, enabled, no fault.
AfterResponse(text) ==
    /\ Enabled
    /\ \E tr \in {AfterResponseTrace(myInternalState, chatState, config, text)} :
          /\ myInternalState' = tr.s
          /\ chatState' = tr.scene
          /\ lastTurn' = TurnRecord("turn", myInternalState, tr)
          /\ emitLog' = IF tr.emitted /\ HasNonCritical(tr.selected)
                        THEN emitLog \cup {tr.turnIndex} ELSE emitLog
          /\ turnLog' = SliceLast(turnLog \o <<tr.signalTypes>>, 5)
          /\ snapLog' = SliceLast(snapLog \o <<tr.snapshot>>, SnapWindow)
          /\ recallLog' = recallLog \o tr.recalled
    /\ lastOp' = "afterResponse"
    /\ lastResponse' = Response("afterResponse", "normal", null)
    /\ UNCHANGED <<config, faults, pure>>

\* afterResponse, enabled, with an exception thrown while step k runs: the
\* assignments of steps 0..k-1 stay, the catch block returns.
FaultSteps == 1..LastStep

AfterResponseFault(text, k) ==
    /\ Enabled
    /\ faults < MaxFaults
    /\ \E tr \in {AfterResponseTrace(myInternalState, chatState, config, text)} :
          /\ myInternalState' = tr.st[k]
          /\ chatState' = IF k > 2 THEN tr.scene ELSE chatState
          /\ lastTurn' = FaultRecord(myInternalState, chatState, tr)
    /\ faults' = faults + 1
    /\ lastOp' = "afterResponse"
    /\ lastResponse' = CatchResponse("afterResponse")
    /\ UNCHANGED <<config, emitLog, turnLog, snapLog, recallLog, pure>>

BeforePrompt ==
    /\ lastOp' = "beforePrompt"
    /\ lastTurn' = PromptRecord(myInternalState)
    /\ IF ~Enabled
       THEN /\ lastResponse' = Response("beforePrompt", "disabled", null)
            /\ UNCHANGED myInternalState
       ELSE /\ lastResponse' = Response("beforePrompt", "normal",
                                        BeforePromptSystemMessage(myInternalState, config))
            /\ myInternalState' = BeforePromptState(myInternalState, chatState, config)
    /\ UNCHANGED <<config, chatState, emitLog, turnLog, snapLog, recallLog, faults, pure>>

\* beforePrompt with an exception thrown after lastBeforePromptAt is written.
BeforePromptFault ==
    /\ Enabled
    /\ faults < MaxFaults
    /\ faults' = faults + 1
    /\ lastOp' = "beforePrompt"
    /\ lastTurn' = PromptRecord(myInternalState)
    /\ lastResponse' = CatchResponse("beforePrompt")
    /\ myInternalState' = Put(myInternalState, "lastBeforePromptAt", myInternalState.turnIndex)
    /\ UNCHANGED <<config, chatState, emitLog, turnLog, snapLog, recallLog, pure>>

SetState(blob) ==
    /\ lastOp' = "setState"
    /\ lastTurn' = NavRecord(blob, chatState)
    /\ myInternalState' = SetStateResult(myInternalState, blob, config)
    /\ chatState' = SetStateScene(chatState, blob)
    /\ UNCHANGED <<config, lastResponse, emitLog, turnLog, snapLog, recallLog, faults, pure>>

-----------------------------------------------------------------------------
(* Texts.  Each is the detectors' view of one sentence; where the sentence *)
(* is one of the repository's fixtures or tests it is quoted from there    *)
(* (src/tests/fixtures/transcripts.ts, src/tests/prompt-quota.test.ts,     *)
(* src/tests/stage-helpers.test.ts).                                       *)

\* "He nods.": nothing any detector reacts to
TPlain == PlainText
\* "He kisses you on the lips and pulls you into a tight embrace."
TKiss == [PlainText EXCEPT !.signals = {"physical_closeness", "physical_intimacy"},
                           !.evidence = {"Intimate"}]
\* "He grabs you and forces a kiss, ignoring your protest."
TForcedKiss == [PlainText EXCEPT !.consent = {"coercive physical action",
                                              "forces decisions/consent onto the user"},
                                 !.evidence = {"Intimate"}]
\* "He grabs you, ignoring your protest."
TConsent == [PlainText EXCEPT !.consent = {"coercive physical action",
                                           "forces decisions/consent onto the user"}]
\* "You feel a strange calm."
TAssign == [PlainText EXCEPT !.consent = {"assigns emotions to the user"}]
\* "Anyway, it doesn't matter."
TAvoid == [PlainText EXCEPT !.subtext = {"avoidance"}]
\* "Um... anyway, doesn't matter."
TSubtext == [PlainText EXCEPT !.subtext = {"hesitation/uncertainty", "avoidance"},
                              !.silence = "pause"]
\* "I have to tell you something. I confess I lied to you, and I kept it from you."
TScar == [PlainText EXCEPT !.scars = {"confession", "betrayal"},
                           !.signals = {"emotional_disclosure"}]
\* "In the kitchen, at night, the lights are low and the air feels tense."
TScene == [PlainText EXCEPT !.tone = "tense", !.location = "kitchen", !.timeOfDay = "night"]
\* "I love you."
TLove == [PlainText EXCEPT !.tone = "affection", !.intensity = "medium",
                           !.signals = {"love_confession"}]
\* "You're beautiful. I feel drawn to you."
TFlirt == [PlainText EXCEPT !.signals = {"emotional_disclosure", "attraction_language"}]
\* "Please stay. I need you."
TNeed == [PlainText EXCEPT !.signals = {"dependency"}]

\* "He steps closer."
TCloser == [PlainText EXCEPT !.evidence = {"Nearby"}]
\* "He steps closer and takes your hand."
THand == [PlainText EXCEPT !.evidence = {"Nearby", "Touching"},
                           !.signals = {"physical_closeness"}]
\* "He touches your arm."
TTouch == [PlainText EXCEPT !.evidence = {"Touching"}]
\* "He stands back."
TBack == [PlainText EXCEPT !.evidence = {"Distant"}]

\* "He smiles softly, warmth in his eyes. \"I'm glad you're here.\""
TWarm == [PlainText EXCEPT !.tone = "affection"]
\* "His smile vanishes; he breaks down sobbing, devastated and shaking."
TSob == [PlainText EXCEPT !.tone = "sad", !.intensity = "medium"]
\* "An awkward silence lingers between them, unfinished and unspoken."
TBeatSilence == [PlainText EXCEPT !.tone = "tense",
    !.beat = "An awkward silence lingers between them, unfinished and unspoken."]
\* "Their argument remains unresolved, hanging between them."
TBeatArgument == [PlainText EXCEPT
    !.beat = "Their argument remains unresolved, hanging between them."]
\* "Their 'argument' remains unresolved, hanging between them."
TBeatArgumentQuoted == [PlainText EXCEPT
    !.beat = "Their 'argument' remains unresolved, hanging between them."]
\* "The promise is still unspoken."
TBeatPromise == [PlainText EXCEPT !.beat = "The promise is still unspoken."]
\* "They clear the air and talk it through.": a resolution cue, no keyword
\* shared with any of the beats above
TResolve == [PlainText EXCEPT !.resolution = TRUE]
\* "They talk it through until nothing of the argument remains hanging.":
\* a resolution cue; argument, remains, hanging are shared with the argument beat
TResolveArgument == [PlainText EXCEPT !.resolution = TRUE,
    !.overlap = {"their argument remains unresolved, hanging between them."}]
\* "She pushes you away."
TReject == [PlainText EXCEPT !.scars = {"rejection"}]

-----------------------------------------------------------------------------
(* Initial states *)

\* A persisted blob that carries a queued prompt note (the repository's test
\* "injects pendingPromptNotes one-shot" starts from such a state).
PendingBlob == [EmptyState EXCEPT !.present = {"pendingPromptNotes"},
                                  !.pendingPromptNotes = <<"Keep continuity consistent.">>]

\* The blob load() returns before the first message.
LoadBlob == FreshState

RECURSIVE StateAfterTurns(_, _, _)
\* The message state a stage under cfgRaw returns after afterResponse turns
\* over texts, starting from s: what the host persists and may hand back.
StateAfterTurns(s, cfgRaw, texts) ==
    IF texts = <<>> THEN s
    ELSE CHOOSE r \in {StateAfterTurns(tr.s, cfgRaw, Tail(texts)) :
                          tr \in {AfterResponseTrace(s, NullScene, cfgRaw, Head(texts))}} : TRUE

\* A blob persisted while memory_depth was 15: three turns of the scar
\* fixture, six scars, the newest recalled.
DeepBlob ==
    StateAfterTurns(FreshState, [DefaultRawConfig EXCEPT !.strictness = 3, !.memory_depth = 15],
                    <<TScar, TScar, TScar>>)

IdlePure == [fn |-> "idle"]

InitStage(configs, states, pures) ==
    /\ pure \in pures
    /\ config \in configs
    /\ myInternalState \in states
    /\ chatState = NullScene
    /\ lastOp = "init"
    /\ lastResponse = Response("load", "normal", null)
    /\ lastTurn = NoTurn
    /\ emitLog = {}
    /\ turnLog = <<>>
    /\ snapLog = <<>>
    /\ recallLog = <<>>
    /\ faults = 0

InitWith(configs, states) == InitStage(configs, states, {IdlePure})

TurnsLeft(max) == myInternalState.turnIndex < max

-----------------------------------------------------------------------------
(* Spec: the stage's lifecycle, with the disabled and the exception paths  *)

LifecycleConfigs ==
    {[DefaultRawConfig EXCEPT !.strictness = 3],
     [DefaultRawConfig EXCEPT !.enabled = FALSE]}

LifecycleTexts == {TKiss, TConsent, TScene}

\* Stage.constructor: messageState != null ? messageState : defaults
Init == InitWith(LifecycleConfigs, {FreshState, Spread(EmptyState, PendingBlob)})

Next ==
    \/ \E text \in LifecycleTexts : TurnsLeft(MaxTurns) /\ AfterResponse(text)
    \/ \E text \in LifecycleTexts, k \in FaultSteps :
            TurnsLeft(MaxTurns) /\ AfterResponseFault(text, k)
    \/ AfterResponseDisabled
    \/ BeforePrompt
    \/ BeforePromptFault
    \/ \E blob \in {LoadBlob, PendingBlob} :
            /\ lastOp # "setState" /\ lastOp # "init"
            /\ SetState(blob)

Spec == Init /\ [][Next]_vars

-----------------------------------------------------------------------------
(* SpecPhase: afterResponse turns over texts that carry escalation signals, *)
(* at every strictness                                                      *)

PhaseConfigs == {[DefaultRawConfig EXCEPT !.strictness = n] : n \in 1..3}

PhaseTexts == {TPlain, TFlirt, TLove, TKiss}

InitPhase == InitWith(PhaseConfigs, {FreshState})

NextPhase == \E text \in PhaseTexts : TurnsLeft(MaxPhaseTurns) /\ AfterResponse(text)

SpecPhase == InitPhase /\ [][NextPhase]_vars

PhaseIdx(p) == IndexOf(phaseOrder, p)

\* C1: after an enabled afterResponse turn the phase is the phase before the
\* turn or the next one in Neutral < Familiar < Charged < Intimate; it never
\* decreases and never advances by more than one step.
C1_PhaseSameOrNext ==
    lastTurn.kind = "turn" =>
        \/ PhaseIdx(myInternalState.phase) = PhaseIdx(lastTurn.phaseBefore)
        \/ PhaseIdx(myInternalState.phase) = PhaseIdx(lastTurn.phaseBefore) + 1

\* A turn whose target was three phases ahead (Neutral, target Intimate) and
\* that advanced the phase by one step.
C1_Witness ==
    /\ lastTurn.kind = "turn"
    /\ lastTurn.phaseBefore = "Neutral"
    /\ lastTurn.targetIdx = 3
    /\ myInternalState.phase = "Familiar"

\* C8: target more than one step ahead: a phase-skip warning is raised (and,
\* with note_phase on, its candidate is produced) and the phase advances by
\* exactly one step; target exactly one step ahead: the phase advances with
\* no warning; target not ahead (or none): phase and phase history stay as
\* they were and there is no warning.
C8_SkipWarningAndOneStep ==
    lastTurn.kind = "turn" =>
        LET c == lastTurn.currentIdx
            t == lastTurn.targetIdx
            after == PhaseIdx(myInternalState.phase)
            skipCandidate == \E i \in 1..Len(lastTurn.candidates) :
                                lastTurn.candidates[i].id = "phase_skip"
        IN /\ c = PhaseIdx(lastTurn.phaseBefore)
           /\ t > c + 1 => /\ lastTurn.escalationWarning
                           /\ normalizeConfig(config).note_phase => skipCandidate
                           /\ after = c + 1
           /\ t = c + 1 => /\ ~lastTurn.escalationWarning
                           /\ ~skipCandidate
                           /\ after = c + 1
           /\ t <= c => /\ ~lastTurn.escalationWarning
                        /\ ~skipCandidate
                        /\ after = c
                        /\ myInternalState.phaseHistory = lastTurn.phaseHistoryBefore

\* A turn that raised the skip warning from a phase other than Neutral.
C8_Witness ==
    /\ lastTurn.kind = "turn"
    /\ lastTurn.escalationWarning
    /\ lastTurn.phaseBefore = "Familiar"
    /\ myInternalState.phase = "Charged"
    /\ \E i \in 1..Len(lastTurn.selected) : lastTurn.selected[i].id = "phase_skip"

\* The weight phase p gets from the signals detected in the given turns.
TurnWindowWeight(turns, p) ==
    SumSeq([i \in 1..Len(turns) |->
                SumOver({ty \in turns[i] : SignalPhase(ty) = p},
                        [ty \in turns[i] |-> SignalWeight(ty)])])

\* The target the signals of the given turns give: the highest phase whose
\* weight reaches the strictness threshold, -1 when there is none.
TurnWindowTargetIdx(turns, strictnessLevel) ==
    LET ok == {i \in 0..3 : TurnWindowWeight(turns, phaseOrder[i + 1])
                                >= phaseThresholdByStrictness(strictnessLevel)}
    IN IF ok = {} THEN -1 ELSE CHOOSE i \in ok : \A j \in ok : j <= i

\* C9: the target phase of a turn is the highest phase whose weight, summed
\* over the signals detected in the last 5 turns (the current one included),
\* reaches the strictness threshold; signals of older turns contribute nothing.
C9_TargetFromLastFiveTurns ==
    lastTurn.kind = "turn" =>
        lastTurn.targetIdx = TurnWindowTargetIdx(turnLog, normalizeConfig(config).strictness)

\* Strictness 1, "I love you." in turn 1 and again in turn 7, nothing in
\* between: the turn-1 confession still counts in turn 7 and the phase advances.
C9_StaleSignalCounts ==
    /\ lastTurn.kind = "turn"
    /\ lastTurn.turnIndex = 7
    /\ normalizeConfig(config).strictness = 1
    /\ turnLog = <<{}, {}, {}, {}, {"love_confession"}>>
    /\ lastTurn.phaseBefore = "Neutral"
    /\ lastTurn.targetIdx = 2
    /\ myInternalState.phase = "Familiar"

-----------------------------------------------------------------------------
(* SpecQuota: long runs of afterResponse turns under a fixed configuration, *)
(* with texts that produce non-critical and critical candidates             *)

QuotaConfigs ==
    {[DefaultRawConfig EXCEPT !.strictness = 2, !.ui_max_notes = 1],
     [DefaultRawConfig EXCEPT !.strictness = 3, !.ui_max_notes = 1, !.max_ui_notes_per_20 = Num(0)],
     [DefaultRawConfig EXCEPT !.strictness = 3, !.ui_max_notes = 1, !.max_ui_notes_per_20 = Num(1)],
     [DefaultRawConfig EXCEPT !.strictness = 2, !.ui_max_notes = 1, !.ui_enabled = FALSE]}

QuotaTexts == {TPlain, TAvoid, TForcedKiss}

InitQuota == InitWith(QuotaConfigs, {FreshState})

NextQuota ==
    \E text \in QuotaTexts :
        /\ TurnsLeft(MaxQuotaTurns)
        /\ text.consent # {} => Len(myInternalState.consentAlerts) < MaxConsentTurns
        /\ AfterResponse(text)

SpecQuota == InitQuota /\ [][NextQuota]_vars

\* The quota ceiling of the configuration.
Ceiling == allowedUiNotesPer20(normalizeConfig(config))

\* C2: over any 20 consecutive turns, the number of turns whose emitted note
\* holds a non-critical candidate is at most the quota ceiling (the override
\* when set, otherwise 0/2/6 by strictness); with ceiling 0 no emitted note
\* holds a non-critical candidate.
C2_NonCriticalWithinCeiling ==
    /\ Ceiling = (IF ~config.max_ui_notes_per_20.null THEN config.max_ui_notes_per_20.val
                  ELSE IF config.strictness = 1 THEN 0
                  ELSE IF config.strictness = 2 THEN 2 ELSE 6)
    /\ \A t \in emitLog : Cardinality({u \in emitLog : t - 20 < u /\ u <= t}) <= Ceiling
    /\ (lastTurn.kind = "turn" /\ lastTurn.quotaBefore >= Ceiling) =>
            ~HasNonCritical(lastTurn.selected)

\* With a ceiling above 0, more non-critical emissions than the ceiling in
\* all: the ceiling was reached, candidates were dropped, and a further one
\* was emitted once the first emission had left the window.
C2_Witness ==
    /\ Ceiling > 0
    /\ Cardinality(emitLog) > Ceiling

C4_CriticalLeavesQuota ==
    (lastTurn.kind = "turn" /\ lastTurn.emitted /\ ~HasNonCritical(lastTurn.selected)) =>
        Len(RecentSystemNotes(myInternalState.systemNoteHistory, lastTurn.turnIndex))
            = lastTurn.quotaBefore

\* A critical-only note used the quota up: the non-critical candidate of a
\* later turn is dropped although no note with a non-critical candidate was
\* emitted in the 20 turns up to it.
C4_CriticalUsedQuota ==
    /\ lastTurn.kind = "turn"
    /\ Ceiling > 0
    /\ \A u \in emitLog : u <= lastTurn.turnIndex - 20
    /\ ~lastTurn.canEmitUiNote
    /\ HasNonCritical(lastTurn.candidates)
    /\ ~lastTurn.emitted

-----------------------------------------------------------------------------
(* Claims checked under Spec *)

\* C5: when a pending prompt note is present and prompt injection is enabled,
\* the next beforePrompt returns it as a non-null systemMessage and sets the
\* pending note to null.
C5_PendingNoteOneShot ==
    (/\ lastTurn.kind = "prompt"
     /\ lastResponse.path = "normal"
     /\ normalizeConfig(config).prompt_injection_enabled
     /\ lastTurn.pendingBefore # <<>>) =>
        /\ lastResponse.systemMessage # null
        /\ myInternalState.pendingPromptNotes = <<>>

\* beforePrompt has run on a state that held a pending note, returned no
\* systemMessage, and the note is still pending.
C5_PendingNoteKept ==
    /\ lastTurn.kind = "prompt"
    /\ lastResponse.path = "normal"
    /\ lastTurn.pendingBefore # <<>>
    /\ lastResponse.systemMessage = null
    /\ myInternalState.pendingPromptNotes = lastTurn.pendingBefore

C7_FaultLeavesStateUnchanged ==
    lastTurn.kind = "fault" =>
        /\ myInternalState = lastTurn.stateBefore
        /\ chatState = lastTurn.sceneBefore

\* A fault late in the turn: turnIndex was incremented and the proximity and
\* the scene were updated before the catch block returned.
C7_FaultKeepsPartialTurn ==
    /\ lastTurn.kind = "fault"
    /\ myInternalState.turnIndex = lastTurn.stateBefore.turnIndex + 1
    /\ myInternalState.proximity # lastTurn.stateBefore.proximity
    /\ chatState # lastTurn.sceneBefore

-----------------------------------------------------------------------------
(* SpecProx: evaluateProximityTransition over every stored proximity and   *)
(* every set of evidence, chained the way Stage.afterResponse chains it    *)

\* The stored proximity of a new stage is absent ("") or the constructor's
\* "Distant"; the others are reached through ProxNextMessage.
ProxInputs == [fn : {"input"}, current : {"", "Distant"}, evidence : SUBSET Proximities]

InitProx == InitStage({DefaultRawConfig}, {FreshState}, ProxInputs)

\* The call: evaluateProximityTransition(content, this.myInternalState.proximity)
ProxEvaluate ==
    /\ pure.fn = "input"
    /\ pure' = [fn |-> "result", current |-> pure.current, evidence |-> pure.evidence,
                result |-> evaluateProximityTransition(pure.evidence, pure.current)]
    /\ UNCHANGED <<config, myInternalState, chatState, lastOp, lastResponse, lastTurn,
                   emitLog, turnLog, snapLog, recallLog, faults>>

\* The next message: the stored proximity is the result's next, the text is new.
ProxNextMessage(evidence) ==
    /\ pure.fn = "result"
    /\ pure' = [fn |-> "input", current |-> pure.result.next, evidence |-> evidence]
    /\ UNCHANGED <<config, myInternalState, chatState, lastOp, lastResponse, lastTurn,
                   emitLog, turnLog, snapLog, recallLog, faults>>

NextProx ==
    \/ ProxEvaluate
    \/ \E evidence \in SUBSET Proximities : ProxNextMessage(evidence)

SpecProx == InitProx /\ [][NextProx]_vars

\* C10: skipped is true exactly when next is more than one step above current
\* and the text holds no evidence for any state strictly between them; one
\* step, a move downwards, and a jump with intermediate evidence are not flagged.
C10_SkippedIffUnevidencedJump ==
    pure.fn = "result" =>
        LET r == pure.result
            cur == IF pure.current = "" THEN "Distant" ELSE pure.current
            between == {p \in Proximities : ProxIdx(cur) < ProxIdx(p) /\ ProxIdx(p) < ProxIdx(r.next)}
        IN /\ r.from = cur
           /\ r.skipped <=> (ProxIdx(r.next) > ProxIdx(cur) + 1 /\ between \cap pure.evidence = {})
           /\ ProxIdx(r.next) = ProxIdx(cur) + 1 => ~r.skipped
           /\ ProxIdx(r.next) < ProxIdx(cur) => ~r.skipped

\* Nearby with evidence for Nearby and Intimate: a jump over Touching, flagged.
C10_Witness ==
    /\ pure.fn = "result"
    /\ pure.current = "Nearby"
    /\ pure.evidence = {"Nearby", "Intimate"}
    /\ pure.result.next = "Intimate"
    /\ pure.result.skipped

-----------------------------------------------------------------------------
(* SpecNear: afterResponse turns over texts that carry proximity evidence  *)

MaxNearTurns == 3

NearConfigs == {[DefaultRawConfig EXCEPT !.strictness = 3]}

NearTexts == {TPlain, TCloser, THand, TTouch, TKiss, TBack}

InitNear == InitWith(NearConfigs, {FreshState})

NextNear == \E text \in NearTexts : TurnsLeft(MaxNearTurns) /\ AfterResponse(text)

SpecNear == InitNear /\ [][NextNear]_vars

\* C11: after an enabled afterResponse turn the stored proximity is the
\* highest state the text holds evidence for, or the previous proximity when
\* the text holds none; a skipped transition is stored all the same, and
\* changed is true exactly when the stored value differs from the previous one.
C11_StoredProximityIsHighestEvidence ==
    lastTurn.kind = "turn" =>
        LET ev == lastTurn.evidence
            before == lastTurn.proximityBefore
            stored == myInternalState.proximity
            r == lastTurn.proximityResult
        IN /\ ev = {} => stored = before
           /\ ev # {} => /\ stored \in ev
                         /\ \A q \in ev : ProxIdx(q) <= ProxIdx(stored)
           /\ r.skipped => stored = r.next /\ stored # before
           /\ r.changed <=> stored # before

\* A kiss at a distance: the jump to Intimate is flagged as skipped and stored.
C11_Witness ==
    /\ lastTurn.kind = "turn"
    /\ lastTurn.proximityBefore = "Distant"
    /\ lastTurn.evidence = {"Intimate"}
    /\ lastTurn.proximityResult.skipped
    /\ lastTurn.proximityResult.changed
    /\ myInternalState.proximity = "Intimate"

-----------------------------------------------------------------------------
(* setState (checked under Spec) *)

\* The value setState leaves in field f when the blob holds value v for it:
\* v itself, overlayNotes, memoryScars and lastEmotions cut to their caps.
CappedValue(f, v) ==
    CASE f = "overlayNotes" -> SliceLast(v, normalizeConfig(config).ui_max_notes)
      [] f = "memoryScars" -> SliceLast(v, normalizeConfig(config).memory_depth)
      [] f = "lastEmotions" -> SliceLast(v, 5)
      [] OTHER -> v

\* C12: after setState(s) with a non-null blob s, every message-level field
\* present in s holds the value from s (up to the caps), and every field
\* absent from s holds its default, not the value of the branch left behind.
C12_SetStateRestoresBlob ==
    lastTurn.kind = "setState" =>
        \A f \in FieldNames :
            IF f \in lastTurn.blob.present
            THEN myInternalState[f] = CappedValue(f, lastTurn.blob[f])
            ELSE myInternalState[f] = EmptyState[f]

\* setState with the blob of load() after a turn on another branch: the blob
\* has no signalHistory and no turnIndex, and those of the other branch stay.
C12_SetStateKeepsOtherBranch ==
    /\ lastTurn.kind = "setState"
    /\ lastTurn.blob = LoadBlob
    /\ "signalHistory" \notin lastTurn.blob.present
    /\ myInternalState.signalHistory # <<>>
    /\ myInternalState.turnIndex > 0

\* C13: setState never changes the chat-level scene: whatever blob is
\* passed, the scene after the call is the scene before it.
C13_SetStateKeepsScene ==
    lastTurn.kind = "setState" => chatState = lastTurn.sceneBefore

\* A scene built by an afterResponse turn has survived a setState.
C13_Witness ==
    /\ lastTurn.kind = "setState"
    /\ ~chatState.isNull
    /\ chatState.location = "kitchen"
    /\ chatState.timeOfDay = "night"
    /\ myInternalState.turnIndex > 0

-----------------------------------------------------------------------------
(* SpecScar: afterResponse turns over texts that log memory scars, with    *)
(* the smallest memory_depth; SpecScarNav adds setState                    *)

MaxScarTurns == 5

ScarConfigs == {[DefaultRawConfig EXCEPT !.strictness = 3, !.memory_depth = 5]}

ScarTexts == {TPlain, TScar, TReject}

InitScar == InitWith(ScarConfigs, {FreshState})

NextScar == \E text \in ScarTexts : TurnsLeft(MaxScarTurns) /\ AfterResponse(text)

SpecScar == InitScar /\ [][NextScar]_vars

\* The turn index never goes back in SpecScarNav, which keeps its runs finite:
\* a blob is restored while the stage has not gone past the blob's turn.
NextScarNav ==
    \/ NextScar
    \/ \E blob \in {LoadBlob, DeepBlob} :
            /\ lastOp # "setState" /\ lastOp # "init"
            /\ myInternalState.turnIndex <= Spread(myInternalState, blob).turnIndex
            /\ SetState(blob)

SpecScarNav == InitScar /\ [][NextScarNav]_vars

Last(seq) == seq[Len(seq)]

HasCandidate(id) == \E i \in 1..Len(lastTurn.candidates) : lastTurn.candidates[i].id = id

\* C14: no scar is announced twice: over a sequence of turns a recall is
\* produced for a logged scar at most once, and a turn that logs no new scar
\* produces no recall once the newest scar has been recalled.
C14_NoScarAnnouncedTwice ==
    /\ \A i, j \in 1..Len(recallLog) : i # j => recallLog[i] # recallLog[j]
    /\ lastTurn.kind = "turn" =>
          LET earlier == SubSeq(recallLog, 1, Len(recallLog) - Len(lastTurn.recalled))
          IN (/\ lastTurn.scarEvents = <<>>
              /\ lastTurn.scarsBefore # <<>>
              /\ Last(lastTurn.scarsBefore) \in Range(earlier))
             => lastTurn.recalled = <<>> /\ ~HasCandidate("scar_recall")

\* Two scars were recalled in earlier turns, the newest among them, and a
\* turn without a new scar has passed without a recall.
C14_Witness ==
    /\ lastTurn.kind = "turn"
    /\ Len(recallLog) = 2
    /\ lastTurn.scarEvents = <<>>
    /\ Last(lastTurn.scarsBefore) = Last(recallLog)
    /\ lastTurn.recalled = <<>>
    /\ ~HasCandidate("scar_recall")

\* C15: with scar recall enabled at strictness 3, every turn that appends a
\* new scar to the log produces a recall candidate for that scar, whatever
\* the length of the log, a log that already holds memory_depth entries included.
C15_NewScarGetsRecall ==
    (/\ lastTurn.kind = "turn"
     /\ normalizeConfig(config).strictness = 3
     /\ normalizeConfig(config).note_scar_recall
     /\ lastTurn.scarEvents # <<>>)
    => /\ HasCandidate("scar_recall")
       /\ lastTurn.recalled = <<Last(myInternalState.memoryScars)>>

\* The log held memory_depth scars, the turn appended a new one, and no
\* recall candidate was produced.
C15_FullLogNoRecall ==
    /\ lastTurn.kind = "turn"
    /\ Len(lastTurn.scarsBefore) = normalizeConfig(config).memory_depth
    /\ lastTurn.scarEvents # <<>>
    /\ Last(myInternalState.memoryScars).at = lastTurn.turnIndex
    /\ lastTurn.recalled = <<>>
    /\ ~HasCandidate("scar_recall")

C16_SetStateCapsLog ==
    /\ lastTurn.kind = "setState"
    /\ Len(lastTurn.blob.memoryScars) = 6
    /\ myInternalState.memoryScars = SubSeq(lastTurn.blob.memoryScars, 2, 6)

-----------------------------------------------------------------------------
(* SpecEmotion: afterResponse turns over texts of different tones, more    *)
(* turns than the emotion history holds                                    *)

MaxEmotionTurns == 7

EmotionConfigs == {[DefaultRawConfig EXCEPT !.strictness = 3]}

EmotionTexts == {TPlain, TWarm, TSob}

InitEmotion == InitWith(EmotionConfigs, {FreshState})

NextEmotion == \E text \in EmotionTexts : TurnsLeft(MaxEmotionTurns) /\ AfterResponse(text)

SpecEmotion == InitEmotion /\ [][NextEmotion]_vars

\* C17: after n enabled turns from an empty emotion history, lastEmotions
\* is exactly the snapshots of the last min(n, 5) turns in turn order; the
\* whiplash evaluation of a turn sees the history without the turn's own
\* snapshot, which is appended after the evaluation.
C17_LastEmotionsAreLastFiveTurns ==
    LET n == myInternalState.turnIndex
        keep == Min(n, 5)
    IN /\ Len(myInternalState.lastEmotions) = keep
       /\ myInternalState.lastEmotions = SubSeq(snapLog, Len(snapLog) - keep + 1, Len(snapLog))
       /\ lastTurn.kind = "turn" =>
             LET earlier == SubSeq(snapLog, 1, Len(snapLog) - 1)
                 seen == Min(n - 1, 5)
             IN /\ lastTurn.snapshot = snapLog[Len(snapLog)]
                /\ lastTurn.deltaRecent = SubSeq(earlier, Len(earlier) - seen + 1, Len(earlier))

\* The sixth turn breaks five warm turns: the evaluation saw the five warm
\* snapshots, a whiplash candidate was produced, and the oldest snapshot left
\* the history.
C17_Witness ==
    /\ lastTurn.kind = "turn"
    /\ myInternalState.turnIndex = 6
    /\ Len(lastTurn.deltaRecent) = 5
    /\ \A i \in 1..5 : lastTurn.deltaRecent[i].tone = "affection"
    /\ lastTurn.snapshot.tone = "sad"
    /\ HasCandidate("emotion_delta")
    /\ Len(myInternalState.lastEmotions) = 5
    /\ myInternalState.lastEmotions[5].tone = "sad"

-----------------------------------------------------------------------------
(* SpecBeat: afterResponse turns over texts that open and resolve beats,   *)
(* from the empty scene                                                    *)

MaxBeatTurns == 4

BeatConfigs == {[DefaultRawConfig EXCEPT !.strictness = 3, !.unresolved_beats_max_history = 2]}

BeatTexts == {TPlain, TBeatSilence, TBeatArgument, TBeatArgumentQuoted, TBeatPromise,
              TResolve, TResolveArgument}

InitBeat == InitWith(BeatConfigs, {FreshState})

NextBeat == \E text \in BeatTexts : TurnsLeft(MaxBeatTurns) /\ AfterResponse(text)

SpecBeat == InitBeat /\ [][NextBeat]_vars

\* The positions of the beats whose normalized snippet is norm.
SameSnippet(beats, norm) == {i \in 1..Len(beats) : normalizeBeatSnippet(beats[i].snippet) = norm}

\* C18: no two unresolved beats have the same normalized snippet; a turn
\* without a resolution cue whose snippet normalizes to that of an existing
\* unresolved beat leaves the number and the order of the unresolved beats
\* as they were and changes only that beat's lastSeenAt.
C18_NoDuplicateBeats ==
    LET beats == chatState.unresolvedBeats
    IN /\ \A i, j \in 1..Len(beats) :
             i # j => normalizeBeatSnippet(beats[i].snippet) # normalizeBeatSnippet(beats[j].snippet)
       /\ (/\ lastTurn.kind = "turn"
           /\ ~lastTurn.resolution
           /\ lastTurn.beat # ""
           /\ SameSnippet(lastTurn.unresolvedBefore, normalizeBeatSnippet(lastTurn.beat)) # {})
          => LET before == lastTurn.unresolvedBefore
                 same == SameSnippet(before, normalizeBeatSnippet(lastTurn.beat))
             IN /\ Len(beats) = Len(before)
                /\ \A i \in 1..Len(before) :
                      beats[i] = IF i \in same
                                 THEN [before[i] EXCEPT !.lastSeenAt = lastTurn.turnIndex]
                                 ELSE before[i]
                /\ chatState.resolvedBeats = lastTurn.resolvedBefore

\* The argument beat is named again, in quotes, two turns after it was
\* opened: still two beats, the argument beat first, seen again now.
C18_Witness ==
    /\ lastTurn.kind = "turn"
    /\ lastTurn.beat = "Their 'argument' remains unresolved, hanging between them."
    /\ Len(lastTurn.unresolvedBefore) = 2
    /\ Len(chatState.unresolvedBeats) = 2
    /\ chatState.unresolvedBeats[1].snippet = "Their argument remains unresolved, hanging between them."
    /\ chatState.unresolvedBeats[1].createdAt < chatState.unresolvedBeats[1].lastSeenAt
    /\ chatState.unresolvedBeats[1].lastSeenAt = lastTurn.turnIndex

\* A turn with a resolution cue in which no unresolved beat shares two
\* keywords with the narrative, and at least one beat is unresolved.
FallbackTurn ==
    /\ lastTurn.kind = "turn"
    /\ lastTurn.resolution
    /\ lastTurn.unresolvedBefore # <<>>
    /\ \A i \in 1..Len(lastTurn.unresolvedBefore) :
          normalizeBeatSnippet(lastTurn.unresolvedBefore[i].snippet) \notin lastTurn.overlap

\* The beats the turn appended to the resolved list (the list is far from its cap).
ResolvedInTurn ==
    SubSeq(chatState.resolvedBeats, Len(lastTurn.resolvedBefore) + 1, Len(chatState.resolvedBeats))

BeatKey(b) == <<b.snippet, b.createdAt>>

\* C20: on a turn with a resolution cue and k >= 1 unresolved beats, the
\* beats removed from the unresolved list are exactly the beats appended to
\* the resolved list (none lost, none duplicated, the resolved list cut to
\* its 20 newest); without a keyword match exactly one beat is removed, so
\* k - 1 remain; no new beat is created in that turn.
C20_ResolvedBeatsMoveOver ==
    (lastTurn.kind = "turn" /\ lastTurn.resolution /\ lastTurn.unresolvedBefore # <<>>) =>
        LET before == lastTurn.unresolvedBefore
            after == chatState.unresolvedBeats
            stay == {i \in 1..Len(before) : before[i] \in Range(after)}
            RECURSIVE Sub(_, _)
            Sub(i, keep) == IF i > Len(before) THEN <<>>
                            ELSE IF i \in keep THEN <<before[i]>> \o Sub(i + 1, keep)
                            ELSE Sub(i + 1, keep)
            removed == Sub(1, (1..Len(before)) \ stay)
            moved == [i \in 1..Len(removed) |-> [removed[i] EXCEPT !.lastSeenAt = lastTurn.turnIndex]]
        IN /\ after = Sub(1, stay)
           /\ Len(removed) >= 1
           /\ chatState.resolvedBeats = SliceLast(lastTurn.resolvedBefore \o moved, 20)
           /\ \A i, j \in 1..Len(chatState.resolvedBeats) :
                 i # j => BeatKey(chatState.resolvedBeats[i]) # BeatKey(chatState.resolvedBeats[j])
           /\ \A i \in 1..Len(after) : \A j \in 1..Len(chatState.resolvedBeats) :
                 BeatKey(after[i]) # BeatKey(chatState.resolvedBeats[j])
           /\ FallbackTurn => Len(after) = Len(before) - 1

\* The silence, then the argument, then "They clear the air and talk it
\* through.": of the two beats exactly one remains, the other is resolved.
C20_Witness ==
    /\ FallbackTurn
    /\ myInternalState.turnIndex = 3
    /\ Len(lastTurn.unresolvedBefore) = 2
    /\ lastTurn.unresolvedBefore[1].snippet = "An awkward silence lingers between them, unfinished and unspoken."
    /\ lastTurn.unresolvedBefore[2].snippet = "Their argument remains unresolved, hanging between them."
    /\ Len(chatState.unresolvedBeats) = 1
    /\ Len(chatState.resolvedBeats) = 1

\* C21: after any sequence of turns the number of stored unresolved beats
\* never exceeds unresolved_beats_max_history, and a beat that arrives when
\* the bound is reached evicts the oldest beat first.
C21_BeatsWithinMaxHistory ==
    LET max == unresolvedBeatsMaxHistory(config)
        beats == chatState.unresolvedBeats
    IN /\ Len(beats) <= max
       /\ (/\ lastTurn.kind = "turn"
           /\ Len(beats) > 0
           /\ Last(beats).createdAt = lastTurn.turnIndex
           /\ Len(lastTurn.unresolvedBefore) >= max)
          => beats = SliceLast(lastTurn.unresolvedBefore \o <<Last(beats)>>, max)

\* unresolved_beats_max_history is 2 and a third beat was opened: all three
\* are stored, the oldest still first.
C21_BeatsExceedMaxHistory ==
    /\ lastTurn.kind = "turn"
    /\ unresolvedBeatsMaxHistory(config) = 2
    /\ Len(lastTurn.unresolvedBefore) = 2
    /\ Len(chatState.unresolvedBeats) = 3
    /\ chatState.unresolvedBeats[1] = lastTurn.unresolvedBefore[1]
    /\ chatState.unresolvedBeats[3].createdAt = lastTurn.turnIndex

-----------------------------------------------------------------------------
(* SpecDrift: afterResponse turns at strictness 3 over flat and flirting   *)
(* texts, with setState of the blob load() returned                        *)

MaxDriftTurns == 6

DriftConfigs == {[DefaultRawConfig EXCEPT !.strictness = 3]}

DriftTexts == {TPlain, TFlirt, TCloser}

InitDrift == InitWith(DriftConfigs, {FreshState})

\* The blob of load() is restored once the branch has left the Neutral phase.
NextDrift ==
    \/ \E text \in DriftTexts : TurnsLeft(MaxDriftTurns) /\ AfterResponse(text)
    \/ /\ lastOp # "setState" /\ lastOp # "init"
       /\ myInternalState.phase # "Neutral"
       /\ SetState(LoadBlob)

SpecDrift == InitDrift /\ [][NextDrift]_vars

\* The summed weight of the signals the turn's phase target was computed from.
RecentSignalWeight ==
    LET recent == RecentSignals(myInternalState.signalHistory)
    IN SumSeq([i \in 1..Len(recent) |-> recent[i].weight])

\* The drift notes before the last turn.
DriftNotesBefore ==
    IF HasCandidate("drift")
    THEN SubSeq(myInternalState.driftNotes, 1, Len(myInternalState.driftNotes) - 1)
    ELSE myInternalState.driftNotes

\* C22: a drift note is raised in a turn only if the last 2 to 3 phase
\* history entries are identical, the last 3 or more emotion entries share
\* one tone, there is no positive recent signal weight and no proximity
\* change, and no drift note was raised within the cooldown window; two
\* drift notes are never fewer than the window's turns apart.
C22_DriftOnlyWhenFlat ==
    /\ (lastTurn.kind = "turn" /\ HasCandidate("drift")) =>
          LET lastPhases == SliceLast(myInternalState.phaseHistory, 3)
              emos == lastTurn.emotionsBefore
              window == driftWindow(normalizeConfig(config).strictness)
          IN /\ Len(lastPhases) \in 2..3
             /\ \A i, j \in 1..Len(lastPhases) : lastPhases[i].phase = lastPhases[j].phase
             /\ Len(emos) >= 3
             /\ \A i, j \in 1..Len(emos) : emos[i].tone = emos[j].tone
             /\ RecentSignalWeight <= 0
             /\ ~lastTurn.proximityResult.changed
             /\ \A i \in 1..Len(DriftNotesBefore) : lastTurn.turnIndex - DriftNotesBefore[i] >= window
    /\ \A i, j \in 1..Len(myInternalState.driftNotes) :
          i < j => myInternalState.driftNotes[j] - myInternalState.driftNotes[i]
                      >= driftWindow(normalizeConfig(config).strictness)

\* A drift note was raised in a turn that changed the proximity, with the
\* recent signals still carrying weight.
C22_DriftDespiteMomentum ==
    /\ lastTurn.kind = "turn"
    /\ HasCandidate("drift")
    /\ lastTurn.proximityResult.changed
    /\ RecentSignalWeight > 0

-----------------------------------------------------------------------------
(* SpecDelta: evaluateEmotionalDelta over histories of prior snapshots,    *)
(* each input evaluated without and with a transition cue in the text      *)

MaxDeltaHistory == 5

\* Snapshots of each polarity and each intensity.
DeltaSnapshots ==
    {[tone |-> "neutral", intensity |-> "low"],
     [tone |-> "sad", intensity |-> "medium"],
     [tone |-> "sad", intensity |-> "high"],
     [tone |-> "affection", intensity |-> "low"],
     [tone |-> "affection", intensity |-> "high"]}

DeltaInputs == [fn : {"delta_input"}, recent : {<<>>}, current : DeltaSnapshots]

InitDelta == InitStage({DefaultRawConfig}, {FreshState}, DeltaInputs)

\* evaluateEmotionalDelta(current, recent, content), for a content without
\* and a content with a transition cue ("I regret this." / "After a long
\* pause, I regret this.").
DeltaEvaluate ==
    /\ pure.fn = "delta_input"
    /\ pure' = [fn |-> "delta_result", recent |-> pure.recent, current |-> pure.current,
                withoutCue |-> evaluateEmotionalDelta(pure.current, pure.recent, FALSE),
                withCue |-> evaluateEmotionalDelta(pure.current, pure.recent, TRUE)]
    /\ UNCHANGED <<config, myInternalState, chatState, lastOp, lastResponse, lastTurn,
                   emitLog, turnLog, snapLog, recallLog, faults>>

\* The next message: the snapshot joins the history, a new one is current.
DeltaNextMessage(snapshot) ==
    /\ pure.fn = "delta_result"
    /\ Len(pure.recent) < MaxDeltaHistory
    /\ pure' = [fn |-> "delta_input", recent |-> Append(pure.recent, pure.current),
                current |-> snapshot]
    /\ UNCHANGED <<config, myInternalState, chatState, lastOp, lastResponse, lastTurn,
                   emitLog, turnLog, snapLog, recallLog, faults>>

NextDelta ==
    \/ DeltaEvaluate
    \/ \E snapshot \in DeltaSnapshots : DeltaNextMessage(snapshot)

SpecDelta == InitDelta /\ [][NextDelta]_vars

\* The intensity as a number of steps above low.
Steps(snapshot) ==
    IF snapshot.intensity = "high" THEN 2 ELSE IF snapshot.intensity = "medium" THEN 1 ELSE 0

\* The window's average intensity, rounded to the nearest step (halves up):
\* the k with k - 1/2 <= sum / n < k + 1/2.
RoundedAverage(window) ==
    LET sum == SumSeq([i \in 1..Len(window) |-> Steps(window[i])])
        n == Len(window)
    IN CHOOSE k \in 0..2 : (2 * k - 1) * n <= 2 * sum /\ 2 * sum < (2 * k + 1) * n

Positive == {"affection", "excited"}
Negative == {"sad", "angry", "anxious", "jealous", "tense"}

\* What the claim says of one evaluation: detected, given the inputs.
DeltaExpected(current, recent, cue) ==
    LET window == SliceLast(recent, 5)
    IN IF window = <<>> THEN FALSE
       ELSE LET last == window[Len(window)].tone
                jump == Steps(current) - RoundedAverage(window)
                big == IF jump < 0 THEN -jump ELSE jump
                steady == Len(window) >= 3 /\ \A i \in 1..Len(window) : window[i].tone = last
                toneChanged == current.tone # last
                flipped == \/ (last \in Positive /\ current.tone \in Negative)
                           \/ (last \in Negative /\ current.tone \in Positive)
                weighted == (IF steady THEN 1 ELSE 0) + (IF toneChanged THEN 1 ELSE 0)
                            + (IF flipped THEN 2 ELSE 0) + (IF big >= 1 THEN 2 * big ELSE 0)
                            - (IF cue THEN 2 ELSE 0)
            IN /\ weighted >= 3
               /\ \/ big >= 2
                  \/ (flipped /\ steady /\ Steps(current) >= 1)
                  \/ (toneChanged /\ steady /\ big >= 1)

\* C23: for every current snapshot and every history of prior snapshots,
\* evaluateEmotionalDelta reports detected exactly when the history is
\* non-empty, the weighted score reaches the threshold 3 and the intensity
\* jump is at least 2, or the polarity flipped after a steady window into at
\* least medium intensity, or the tone changed after a steady window with a
\* jump of at least 1; with an empty history it never fires.
C23_DetectedExactlyWhen ==
    pure.fn = "delta_result" =>
        /\ pure.withoutCue.detected <=> DeltaExpected(pure.current, pure.recent, FALSE)
        /\ pure.withCue.detected <=> DeltaExpected(pure.current, pure.recent, TRUE)
        /\ pure.recent = <<>> => ~pure.withoutCue.detected /\ ~pure.withCue.detected

\* Five neutral/low snapshots, then sad/medium: detected.
C23_Witness ==
    /\ pure.fn = "delta_result"
    /\ Len(pure.recent) = 5
    /\ \A i \in 1..5 : pure.recent[i] = [tone |-> "neutral", intensity |-> "low"]
    /\ pure.current = [tone |-> "sad", intensity |-> "medium"]
    /\ pure.withoutCue.detected

\* C24 as stated: for every current snapshot and every history, detection
\* with a transition cue implies detection without it, and the score with
\* the cue is the score without it minus 2.
C24_CueOnlySuppresses ==
    pure.fn = "delta_result" =>
        /\ pure.withCue.detected => pure.withoutCue.detected
        /\ pure.withCue.score = pure.withoutCue.score - 2

\* C24, amended: for every current snapshot and every history, detection
\* with a transition cue implies detection without it; for every non-empty
\* history the score with the cue is the score without it minus 2, and for
\* the empty history both scores are 0.
C24_CueSuppressesGivenHistory ==
    pure.fn = "delta_result" =>
        /\ pure.withCue.detected => pure.withoutCue.detected
        /\ pure.recent # <<>> => pure.withCue.score = pure.withoutCue.score - 2
        /\ pure.recent = <<>> => pure.withCue.score = 0 /\ pure.withoutCue.score = 0

\* A steady neutral/low history, then sad/medium: detected without the cue
\* (score 4), not detected with it (score 2).
C24_Witness ==
    /\ pure.fn = "delta_result"
    /\ Len(pure.recent) >= 3
    /\ \A i \in 1..Len(pure.recent) : pure.recent[i] = [tone |-> "neutral", intensity |-> "low"]
    /\ pure.current = [tone |-> "sad", intensity |-> "medium"]
    /\ pure.withoutCue.detected /\ pure.withoutCue.score = 4
    /\ ~pure.withCue.detected /\ pure.withCue.score = 2

-----------------------------------------------------------------------------
(* SpecAgency: afterResponse turns over texts with consent issues of the   *)
(* severe and of the other categories, at every strictness                 *)

MaxAgencyTurns == 3

\* "A shiver runs through you."
TShiver == [PlainText EXCEPT !.consent = {"describes involuntary bodily response for the user"}]

AgencyConfigs == {[DefaultRawConfig EXCEPT !.strictness = n] : n \in 1..3}

AgencyTexts == {TPlain, TAssign, TShiver, TConsent}

InitAgency == InitWith(AgencyConfigs, {FreshState})

NextAgency == \E text \in AgencyTexts : TurnsLeft(MaxAgencyTurns) /\ AfterResponse(text)

SpecAgency == InitAgency /\ [][NextAgency]_vars

\* C25: whenever the consent scan of a turn returns at least one issue
\* label, of any of the five categories, the consent note candidate of that
\* turn is marked critical.
C25_AnyConsentIssueIsCritical ==
    lastTurn.kind = "turn" =>
        \A i \in 1..Len(lastTurn.candidates) :
            lastTurn.candidates[i].id = "consent" => lastTurn.candidates[i].critical

\* "You feel a strange calm.": the scan returned "assigns emotions to the
\* user" and the consent candidate is not critical.
C25_ConsentNotCritical ==
    /\ lastTurn.kind = "turn"
    /\ Len(myInternalState.consentAlerts) = 1
    /\ \E i \in 1..Len(lastTurn.candidates) :
          lastTurn.candidates[i] = Candidate("consent", 2, FALSE)

-----------------------------------------------------------------------------
(* SpecParts: afterResponse turns that produce several candidates, with    *)
(* and without a configured tune_ui_note_parts                             *)

MaxPartsTurns == 3

PartsConfigs ==
    {[DefaultRawConfig EXCEPT !.strictness = 3],
     [DefaultRawConfig EXCEPT !.strictness = 3, !.tune_ui_note_parts = Num(1)],
     [DefaultRawConfig EXCEPT !.strictness = 2, !.tune_ui_note_parts = Num(6)]}

PartsTexts == {TPlain, TForcedKiss, TSubtext, TKiss, TScar}

InitParts == InitWith(PartsConfigs, {FreshState})

NextParts == \E text \in PartsTexts : TurnsLeft(MaxPartsTurns) /\ AfterResponse(text)

SpecParts == InitParts /\ [][NextParts]_vars

\* The positions of the candidates the quota lets through.
EligiblePositions ==
    {i \in 1..Len(lastTurn.candidates) :
        lastTurn.candidates[i].critical \/ lastTurn.canEmitUiNote}

\* Is candidate a ranked at least as high as b: critical first, then score.
RanksAtLeast(a, b) ==
    \/ a.critical /\ ~b.critical
    \/ a.critical = b.critical /\ a.score >= b.score

\* The number of parts an emitted note may merge: tune_ui_note_parts when
\* configured, the strictness default otherwise.
ConfiguredParts ==
    IF tuneUiNoteParts(config).null THEN maxParts(normalizeConfig(config).strictness)
    ELSE tuneUiNoteParts(config).val

\* C26: the note emitted in a turn is built from the top N eligible
\* candidates ordered by critical first and then by score descending, N
\* being tune_ui_note_parts when configured and the strictness default
\* otherwise; it never merges more than N parts, and no candidate is left
\* out in favour of one that ranks lower.
C26_TopConfiguredParts ==
    (lastTurn.kind = "turn" /\ normalizeConfig(config).ui_enabled) =>
        LET sel == lastTurn.selected
        IN /\ Len(sel) = Min(ConfiguredParts, Cardinality(EligiblePositions))
           /\ \A k \in 1..(Len(sel) - 1) : RanksAtLeast(sel[k], sel[k + 1])
           /\ \E pos \in [1..Len(sel) -> EligiblePositions] :
                 /\ \A k \in 1..Len(sel) : lastTurn.candidates[pos[k]] = sel[k]
                 /\ \A k, l \in 1..Len(sel) : k # l => pos[k] # pos[l]
                 /\ \A i \in EligiblePositions \ {pos[k] : k \in 1..Len(sel)} :
                       \A k \in 1..Len(sel) : RanksAtLeast(sel[k], lastTurn.candidates[i])

\* tune_ui_note_parts is 1 and the emitted note merges two parts.
C26_MoreThanConfiguredParts ==
    /\ lastTurn.kind = "turn"
    /\ tuneUiNoteParts(config) = Num(1)
    /\ lastTurn.emitted
    /\ Len(lastTurn.selected) = 2
    /\ Len(myInternalState.overlayNotes[Len(myInternalState.overlayNotes)].text) = 2

-----------------------------------------------------------------------------
(* SpecRecords: afterResponse turns at strictness 3 with note delivery off *)
(* or the quota at 0, over texts that produce non-critical candidates      *)

MaxRecordsTurns == 3

RecordsConfigs ==
    {[DefaultRawConfig EXCEPT !.strictness = 3, !.ui_enabled = FALSE],
     [DefaultRawConfig EXCEPT !.strictness = 3, !.max_ui_notes_per_20 = Num(0)],
     [DefaultRawConfig EXCEPT !.strictness = 3]}

RecordsTexts == {TPlain, TScar, TSubtext, TReject}

InitRecords == InitWith(RecordsConfigs, {FreshState})

NextRecords == \E text \in RecordsTexts : TurnsLeft(MaxRecordsTurns) /\ AfterResponse(text)

SpecRecords == InitRecords /\ [][NextRecords]_vars

\* Is a candidate with this id part of the note emitted in the last turn?
InEmittedNote(id) ==
    /\ lastTurn.emitted
    /\ \E i \in 1..Len(lastTurn.selected) : lastTurn.selected[i].id = id

\* C27: within a turn the quota and cooldown records are written only after
\* note selection: systemNoteHistory, lastAnnotations and driftNotes record
\* the turn, and lastScarRecallIdx moves, only when the corresponding note
\* was part of the note emitted in that turn; a candidate dropped by the
\* quota, by the top-N cut or by disabled delivery consumes nothing.
C27_RecordsOnlyWhatWasEmitted ==
    lastTurn.kind = "turn" =>
        /\ lastTurn.turnIndex \in Range(myInternalState.systemNoteHistory) => lastTurn.emitted
        /\ lastTurn.turnIndex \in Range(myInternalState.lastAnnotations) => InEmittedNote("emotion_delta")
        /\ lastTurn.turnIndex \in Range(myInternalState.driftNotes) => InEmittedNote("drift")
        /\ myInternalState.lastScarRecallIdx # lastTurn.recallIdxBefore => InEmittedNote("scar_recall")

\* A turn logged a scar and emitted no note, and the scar counts as recalled.
C27_RecallConsumedWithoutNote ==
    /\ lastTurn.kind = "turn"
    /\ lastTurn.scarEvents # <<>>
    /\ ~lastTurn.emitted
    /\ lastTurn.recallIdxBefore = -1
    /\ myInternalState.lastScarRecallIdx = Len(myInternalState.memoryScars) - 1

-----------------------------------------------------------------------------
(* SpecCaps: one long conversation in which every turn moves the           *)
(* proximity, advances the phase, raises a consent and a pause finding and *)
(* touches a beat; beforePrompt runs before each turn, and the host        *)
(* restores the blob load() returned whenever the phase has reached        *)
(* Intimate.  The last two turns take any of the texts.                    *)

MaxCapsTurns == 53

\* "He steps closer and undresses... You feel a strange calm. The promise
\* is still unspoken."
TCapsNear == [PlainText EXCEPT
    !.evidence = {"Nearby"}, !.signals = {"physical_intimacy"},
    !.consent = {"assigns emotions to the user"},
    !.subtext = {"hesitation/uncertainty"}, !.silence = "pause",
    !.beat = "The promise is still unspoken."]
\* "He takes your hand and undresses... You feel a strange calm. Their
\* argument remains unresolved, hanging between them."
TCapsTouch == [PlainText EXCEPT
    !.evidence = {"Touching"}, !.signals = {"physical_closeness", "physical_intimacy"},
    !.consent = {"assigns emotions to the user"},
    !.subtext = {"hesitation/uncertainty"}, !.silence = "pause",
    !.beat = "Their argument remains unresolved, hanging between them."]
\* "He kisses you and undresses... You feel a strange calm. They talk it
\* through until neither the unspoken promise nor the argument remains
\* hanging.": a resolution cue; promise, unspoken and argument, remains,
\* hanging are shared with the two beats
TCapsKiss == [PlainText EXCEPT
    !.evidence = {"Intimate"}, !.signals = {"physical_intimacy"},
    !.consent = {"assigns emotions to the user"},
    !.subtext = {"hesitation/uncertainty"}, !.silence = "pause",
    !.resolution = TRUE,
    !.overlap = {"the promise is still unspoken.",
                 "their argument remains unresolved, hanging between them."}]

CapsConfigs == {[DefaultRawConfig EXCEPT !.strictness = 3, !.ui_max_notes = 2]}

CapsTexts == {TPlain, TCapsNear, TCapsTouch, TCapsKiss}

\* The text moves the proximity one state up.
CapsBusy(text) ==
    /\ text.evidence # {}
    /\ ProxIdx(HighestEvidence(text.evidence)) = ProxIdx(myInternalState.proximity) + 1

InitCaps == InitWith(CapsConfigs, {FreshState})

NextCaps ==
    \/ \E text \in CapsTexts :
            /\ TurnsLeft(MaxCapsTurns)
            /\ lastOp = "beforePrompt"
            /\ myInternalState.turnIndex < MaxCapsTurns - 2 => CapsBusy(text)
            /\ AfterResponse(text)
    \/ /\ lastOp # "beforePrompt"
       /\ lastOp = "afterResponse" => myInternalState.phase # "Intimate"
       /\ BeforePrompt
    \/ /\ lastOp = "afterResponse"
       /\ myInternalState.phase = "Intimate"
       /\ SetState(LoadBlob)

SpecCaps == InitCaps /\ [][NextCaps]_vars

\* after is what is left of before, oldest entries dropped first, followed
\* by entries this call stamped.
EvictsOldestFirst(before, after, New(_)) ==
    \E d \in 0..Len(before) :
        /\ Len(after) >= Len(before) - d
        /\ SubSeq(after, 1, Len(before) - d) = SubSeq(before, d + 1, Len(before))
        /\ \A i \in (Len(before) - d + 1)..Len(after) : New(after[i])

CapsWithin ==
    /\ Len(myInternalState.overlayNotes) <= normalizeConfig(config).ui_max_notes
    /\ Len(myInternalState.signalHistory) <= 20
    /\ Len(myInternalState.lastAnnotations) <= 20
    /\ Len(myInternalState.proximityHistory) <= 50
    /\ Len(myInternalState.phaseHistory) <= 50
    /\ Len(myInternalState.consentAlerts) <= 50
    /\ Len(myInternalState.silenceHistory) <= 50
    /\ Len(myInternalState.driftNotes) <= 50
    /\ Len(myInternalState.systemNoteHistory) <= 100
    /\ Len(chatState.resolvedBeats) <= 20

\* One afterResponse or beforePrompt call, history by history.
CapsEvictOldest ==
    LET now == myInternalState'.turnIndex
        IsNow(e) == e = now
        AtNow(e) == e.at = now
        SeenNow(e) == e.lastSeenAt = now
        Whatever(e) == TRUE
    IN /\ EvictsOldestFirst(myInternalState.overlayNotes, myInternalState'.overlayNotes, AtNow)
       /\ EvictsOldestFirst(myInternalState.signalHistory, myInternalState'.signalHistory, Whatever)
       /\ EvictsOldestFirst(myInternalState.lastAnnotations, myInternalState'.lastAnnotations, IsNow)
       /\ EvictsOldestFirst(myInternalState.proximityHistory, myInternalState'.proximityHistory, AtNow)
       /\ EvictsOldestFirst(myInternalState.phaseHistory, myInternalState'.phaseHistory, AtNow)
       /\ EvictsOldestFirst(myInternalState.consentAlerts, myInternalState'.consentAlerts, IsNow)
       /\ EvictsOldestFirst(myInternalState.silenceHistory, myInternalState'.silenceHistory, IsNow)
       /\ EvictsOldestFirst(myInternalState.driftNotes, myInternalState'.driftNotes, IsNow)
       /\ EvictsOldestFirst(myInternalState.systemNoteHistory, myInternalState'.systemNoteHistory, IsNow)
       /\ EvictsOldestFirst(chatState.resolvedBeats, chatState'.resolvedBeats, SeenNow)

\* C28: in every state reached by afterResponse, beforePrompt and setState of
\* a blob the stage returned, each history is within its cap (overlayNotes
\* <= ui_max_notes, signalHistory, lastAnnotations and resolvedBeats <= 20,
\* proximityHistory, phaseHistory, consentAlerts, silenceHistory and
\* driftNotes <= 50, systemNoteHistory <= 100), and a call that appends to a
\* history drops entries from its old end only.
C28_HistoriesWithinCaps ==
    /\ []CapsWithin
    /\ [][lastOp' # "setState" => CapsEvictOldest]_vars

\* The histories a turn appends to are full and have lost their oldest
\* entries.
C28_Witness ==
    /\ lastOp = "afterResponse"
    /\ Len(myInternalState.proximityHistory) = 50 /\ myInternalState.proximityHistory[1].at > 1
    /\ Len(myInternalState.phaseHistory) = 50 /\ myInternalState.phaseHistory[1].at > 1
    /\ Len(myInternalState.consentAlerts) = 50 /\ myInternalState.consentAlerts[1] > 1
    /\ Len(myInternalState.silenceHistory) = 50 /\ myInternalState.silenceHistory[1] > 1
    /\ Len(myInternalState.signalHistory) = 20
    /\ Len(chatState.resolvedBeats) = 20 /\ chatState.resolvedBeats[1].lastSeenAt > 3
    /\ Len(myInternalState.overlayNotes) = normalizeConfig(config).ui_max_notes

-----------------------------------------------------------------------------
(* The disabled stage, under Spec *)

\* C29: with enabled = false, afterResponse and beforePrompt leave the
\* message state and the chat state as they found them (the turn index, the
\* histories, phase, proximity, scars, scene and notes included) and return
\* systemMessage = null.
C29_DisabledChangesNothing ==
    [][(~Enabled /\ lastOp' \in {"afterResponse", "beforePrompt"})
            => /\ myInternalState' = myInternalState
               /\ chatState' = chatState
               /\ lastResponse'.path = "disabled"
               /\ lastResponse'.systemMessage = null]_vars

\* A disabled afterResponse has returned on a stage that holds a restored
\* blob.
C29_Witness ==
    /\ ~Enabled
    /\ lastOp = "afterResponse"
    /\ lastResponse.path = "disabled"
    /\ myInternalState.pendingPromptNotes # <<>>

-----------------------------------------------------------------------------
(* The tone classifier: extractIntensity, scoreEmotionSnapshot.  A text is *)
(* what the classifier's patterns count in it: per tone pattern the number *)
(* of matches that are not negated, the punctuation and emphasis counts of *)
(* extractIntensity, whether it holds any other non-blank character, and   *)
(* whether it holds white space.  Stage.afterResponse calls the classifier *)
(* without tuning, so there are no extra terms.                            *)

toneOrder == <<"affection", "angry", "anxious", "sad", "embarrassed", "jealous", "excited", "tense">>

ToneLabels == {"sad_words", "tears_noun", "apology", "hurt", "tears_voice",
               "anger_words", "aggressive_verbs", "shouting", "dare",
               "anxiety_words", "tremble", "racing",
               "love_words", "care_miss", "tender", "smile",
               "blush", "awkward_tells",
               "jealous_words", "tightens",
               "excited_words", "laugh", "bright",
               "tense_words", "silence", "hesitation", "sigh"}

\* The patterns each toneScore call lists.
ToneParts(tone) ==
    CASE tone = "sad" -> {"sad_words", "tears_noun", "apology", "hurt", "tears_voice"}
      [] tone = "angry" -> {"anger_words", "aggressive_verbs", "shouting", "dare"}
      [] tone = "anxious" -> {"anxiety_words", "tremble", "racing"}
      [] tone = "affection" -> {"love_words", "care_miss", "tender", "smile"}
      [] tone = "embarrassed" -> {"blush", "awkward_tells"}
      [] tone = "jealous" -> {"jealous_words", "tightens"}
      [] tone = "excited" -> {"excited_words", "laugh", "bright"}
      [] tone = "tense" -> {"tense_words", "silence", "hesitation", "sigh"}

LabelWeight(label) ==
    IF label \in {"apology", "hurt", "tremble", "racing", "tender", "smile", "awkward_tells",
                  "tightens", "laugh", "bright", "silence", "hesitation", "sigh"}
    THEN 1 ELSE 2

\* "": no character at all
EmptyText == [
    hits |-> [label \in ToneLabels |-> 0],
    exclamations |-> 0, questions |-> 0, allCapsWords |-> 0, elongated |-> 0,
    intensifier |-> FALSE,      \* very, really, so, extremely, ...
    highStakes |-> FALSE,       \* furious, devastated, heartbroken, ...
    other |-> FALSE,            \* a non-blank character no pattern matches
    space |-> FALSE,
    words |-> 0,                \* the words and marks a pattern counts
    extra |-> [tone \in Range(toneOrder) |-> 0]]   \* matches of tuning.extraTerms[tone]

\* text.trim().length === 0
IsBlank(text) ==
    /\ \A label \in ToneLabels : text.hits[label] = 0
    /\ text.exclamations = 0 /\ text.questions = 0 /\ text.allCapsWords = 0 /\ text.elongated = 0
    /\ ~text.intensifier /\ ~text.highStakes /\ ~text.other
    /\ \A tone \in Range(toneOrder) : text.extra[tone] = 0

\* A variant that lacks the final return.
extractIntensityNoDefault(text) ==
    LET score == (IF text.exclamations >= 1 THEN 1 ELSE 0)
                 + (IF text.exclamations >= 3 THEN 1 ELSE 0)
                 + (IF text.questions >= 3 THEN 1 ELSE 0)
                 + (IF text.allCapsWords >= 2 THEN 1 ELSE 0)
                 + (IF text.elongated >= 1 THEN 1 ELSE 0)
                 + (IF text.intensifier THEN 1 ELSE 0)
                 + (IF text.highStakes THEN 2 ELSE 0)
    IN IF score >= 3 THEN "high" ELSE IF score >= 1 THEN "medium" ELSE "undefined"

extractIntensity(text) ==
    LET score == (IF text.exclamations >= 1 THEN 1 ELSE 0)
                 + (IF text.exclamations >= 3 THEN 1 ELSE 0)
                 + (IF text.questions >= 3 THEN 1 ELSE 0)
                 + (IF text.allCapsWords >= 2 THEN 1 ELSE 0)
                 + (IF text.elongated >= 1 THEN 1 ELSE 0)
                 + (IF text.intensifier THEN 1 ELSE 0)
                 + (IF text.highStakes THEN 2 ELSE 0)
    IN IF score >= 3 THEN "high" ELSE IF score >= 1 THEN "medium" ELSE "low"

\* scoreRegexWithNegation: the weight for each affirmed match, six at most.
scoreRegexWithNegation(text, label) == LabelWeight(label) * Min(text.hits[label], 6)

\* toneScore(tone, parts).score
toneScore(text, tone) ==
    SumOver(ToneParts(tone), [label \in ToneParts(tone) |-> scoreRegexWithNegation(text, label)])
        + 2 * Min(text.extra[tone], 6)

\* A variant that floors every sad or affection snapshot, whatever matched.
forcedMediumByTone(tone, text) == tone \in {"sad", "affection"}

\* forcedMedium: the tone is sad or affection and one of sad_words,
\* love_words, care_miss is among the winning tone's reasons.
forcedMedium(tone, text) ==
    /\ tone \in {"sad", "affection"}
    /\ \E label \in {"sad_words", "love_words", "care_miss"} :
           label \in ToneParts(tone) /\ text.hits[label] > 0

\* A variant with the minimum 1 for every tone.
minScoreByToneAllOne(tone) == 1

minScoreByTone(tone) ==
    IF tone \in {"sad", "angry", "anxious", "embarrassed", "jealous", "excited"} THEN 2 ELSE 1

scoreEmotionSnapshot(text) ==
    IF IsBlank(text) THEN [snapshot |-> [tone |-> "neutral", intensity |-> "low"]]
    ELSE
        LET intensity == extractIntensity(text)
            \* toneScores[0] of the stable descending sort: the first tone of
            \* the list that has the highest score
            bestIdx == CHOOSE i \in 1..Len(toneOrder) :
                           /\ \A j \in 1..Len(toneOrder) :
                                  toneScore(text, toneOrder[j]) <= toneScore(text, toneOrder[i])
                           /\ \A j \in 1..(i - 1) :
                                  toneScore(text, toneOrder[j]) < toneScore(text, toneOrder[i])
            best == [tone |-> toneOrder[bestIdx], score |-> toneScore(text, toneOrder[bestIdx])]
            bestTone == IF best.score > 0 THEN best.tone ELSE "neutral"
            minScore == minScoreByTone(bestTone)
            tone == IF best.score >= minScore THEN bestTone ELSE "neutral"
        IN [snapshot |-> [tone |-> tone,
                          intensity |-> IF forcedMedium(tone, text) /\ intensity = "low"
                                        THEN "medium" ELSE intensity]]

-----------------------------------------------------------------------------
(* SpecTone: the classifier on texts built one word or mark at a time,     *)
(* from the empty text.                                                    *)

MaxToneWords == 2

Classified(text) == [fn |-> "tone", text |-> text, snapshot |-> scoreEmotionSnapshot(text).snapshot]

InitTone == InitStage({DefaultRawConfig}, {FreshState}, {Classified(EmptyText)})

\* extractEmotionSnapshot(text): scoreEmotionSnapshot(text).snapshot
ToneClassify(text) ==
    /\ pure.fn = "tone"
    /\ text.words <= MaxToneWords
    /\ pure' = Classified(text)
    /\ UNCHANGED <<config, myInternalState, chatState, lastOp, lastResponse, lastTurn,
                   emitLog, turnLog, snapLog, recallLog, faults>>

NextTone ==
    \/ \E label \in ToneLabels :
            ToneClassify([pure.text EXCEPT !.hits[label] = @ + 1, !.words = @ + 1])
    \/ \E mark \in {"exclamations", "questions", "allCapsWords", "elongated"} :
            ToneClassify([pure.text EXCEPT ![mark] = @ + 1, !.words = @ + 1])
    \/ \E flag \in {"intensifier", "highStakes"} :
            ~pure.text[flag] /\ ToneClassify([pure.text EXCEPT ![flag] = TRUE, !.words = @ + 1])
    \/ \E flag \in {"other", "space"} :
            ~pure.text[flag] /\ ToneClassify([pure.text EXCEPT ![flag] = TRUE])

SpecTone == InitTone /\ [][NextTone]_vars

\* C30: for every text the classifier returns a tone among neutral, sad,
\* angry, anxious, affection, embarrassed, jealous, excited, tense and an
\* intensity among low, medium, high; for a text that is empty or holds
\* white space only it returns neutral / low.
C30_ClassifierTotal ==
    pure.fn = "tone" =>
        /\ pure.snapshot.tone \in {"neutral", "sad", "angry", "anxious", "affection",
                                   "embarrassed", "jealous", "excited", "tense"}
        /\ pure.snapshot.intensity \in {"low", "medium", "high"}
        /\ IsBlank(pure.text) => pure.snapshot = [tone |-> "neutral", intensity |-> "low"]

\* A text of white space only has been classified.
C30_Witness ==
    /\ pure.fn = "tone"
    /\ pure.text.space
    /\ IsBlank(pure.text)
    /\ pure.snapshot = [tone |-> "neutral", intensity |-> "low"]

-----------------------------------------------------------------------------
(* Negation: isNegatedAt.  The 24 characters before a keyword match are a  *)
(* short sequence of tokens, oldest first: a negation cue (not, never, no, *)
(* don't, ...), a hard boundary character (. ! ? ; ,) or any other word.   *)

PrefixTokens == {"word", "cue", "boundary"}

\* matchIndex <= 0 leaves no prefix; a boundary anywhere in the window
\* returns false before the cue is looked for.
isNegatedAt(prefix) ==
    IF Len(prefix) = 0 THEN FALSE
    ELSE IF \E i \in 1..Len(prefix) : prefix[i] = "boundary" THEN FALSE
    ELSE \E i \in 1..Len(prefix) : prefix[i] = "cue"

\* scoreRegexWithNegation's loop body for one more match of label: a negated
\* match is skipped, any other is counted.
AddMatch(text, label, prefix) ==
    [text EXCEPT !.other = TRUE,
                 !.hits[label] = IF isNegatedAt(prefix) THEN @ ELSE @ + 1]

-----------------------------------------------------------------------------
(* SpecNegation: texts built from keyword matches of two patterns, each    *)
(* match with the window that precedes it.                                 *)

MaxPrefixTokens == 3
MaxNegMatches == 2

NegLabels == {"anger_words", "smile"}

Prefixes == UNION {[1..n -> PrefixTokens] : n \in 0..MaxPrefixTokens}

\* The window holds a negation cue and no boundary between it and the match.
CueReachesMatch(prefix) ==
    \E i \in 1..Len(prefix) :
        /\ prefix[i] = "cue"
        /\ \A j \in (i + 1)..Len(prefix) : prefix[j] # "boundary"

\* plain: the tones with a match that no cue reaches.
Negation(text, matches, plain, prefix) ==
    [fn |-> "negation", text |-> text, matches |-> matches, plain |-> plain, prefix |-> prefix,
     snapshot |-> scoreEmotionSnapshot(text).snapshot]

InitNegation == InitStage({DefaultRawConfig}, {FreshState}, {Negation(EmptyText, 0, {}, <<>>)})

\* The classifier on the text with one more keyword match.
NegationClassify(label, prefix) ==
    /\ pure.fn = "negation"
    /\ pure.matches < MaxNegMatches
    /\ pure' = Negation(AddMatch(pure.text, label, prefix), pure.matches + 1,
                        IF CueReachesMatch(prefix) THEN pure.plain
                        ELSE pure.plain \cup {CHOOSE tone \in Range(toneOrder) : label \in ToneParts(tone)},
                        prefix)
    /\ UNCHANGED <<config, myInternalState, chatState, lastOp, lastResponse, lastTurn,
                   emitLog, turnLog, snapLog, recallLog, faults>>

NextNegation == \E label \in NegLabels, prefix \in Prefixes : NegationClassify(label, prefix)

SpecNegation == InitNegation /\ [][NextNegation]_vars

\* C31: a keyword match whose 24-character window holds a negation cue with
\* no boundary punctuation between the cue and the match adds nothing to its
\* tone's score, so a text in which every match of a tone is negated in
\* this way never yields that tone.
C31_NegatedNeverYieldsTone ==
    pure.fn = "negation" =>
        (pure.snapshot.tone # "neutral" => pure.snapshot.tone \in pure.plain)

\* Every match of the returned tone is preceded by a cue that reaches it.
C31_NegatedToneReturned ==
    /\ pure.fn = "negation"
    /\ pure.snapshot.tone = "angry"
    /\ "angry" \notin pure.plain

-----------------------------------------------------------------------------
(* SpecFloor: the classifier with tuning, on texts built one word or mark  *)
(* at a time; a word may also be one of the configured extra terms of a    *)
(* tone.                                                                   *)

\* A match of tuning.extraTerms[tone]
FloorExtraTerm(tone) ==
    ToneClassify([pure.text EXCEPT !.extra[tone] = @ + 1, !.words = @ + 1])

NextFloor ==
    \/ NextTone
    \/ \E tone \in Range(toneOrder) : FloorExtraTerm(tone)

SpecFloor == InitTone /\ [][NextFloor]_vars

\* The patterns that list emotion keywords; the others list gestures and
\* other inferred cues.
KeywordLabels == {"sad_words", "anger_words", "anxiety_words", "love_words", "care_miss",
                  "jealous_words", "excited_words", "tense_words"}

\* The weight of the strongest reason of tone, and whether a keyword
\* pattern or the extra terms reach it.
StrongestWeight(text, tone) ==
    LET weights == {scoreRegexWithNegation(text, label) : label \in ToneParts(tone)}
                       \cup {2 * Min(text.extra[tone], 6)}
    IN CHOOSE w \in weights : \A v \in weights : v <= w

StrongestIsKeyword(text, tone) ==
    LET w == StrongestWeight(text, tone)
    IN /\ w > 0
       /\ \/ 2 * Min(text.extra[tone], 6) = w
          \/ \E label \in ToneParts(tone) \cap KeywordLabels :
                 scoreRegexWithNegation(text, label) = w

AtLeastMedium(intensity) == intensity \in {"medium", "high"}

\* C32 as stated: whenever the winning tone is not neutral and its strongest
\* reason is an explicit keyword match, extra terms included, the returned
\* intensity is at least medium.
C32_KeywordFloorsIntensity ==
    pure.fn = "tone" =>
        ((pure.snapshot.tone # "neutral" /\ StrongestIsKeyword(pure.text, pure.snapshot.tone))
            => AtLeastMedium(pure.snapshot.intensity))

\* C32 as amended: the floor applies to sad and affection only, and only
\* when sad_words, love_words or care_miss matched: the returned intensity
\* is then at least medium; in every other case, an extra term or a keyword
\* of another tone included, it is the intensity of the surface cues.
C32_FloorForSadAndAffectionKeywords ==
    pure.fn = "tone" =>
        LET text == pure.text
            tone == pure.snapshot.tone
            floored == \/ tone = "sad" /\ text.hits["sad_words"] > 0
                       \/ tone = "affection"
                            /\ (text.hits["love_words"] > 0 \/ text.hits["care_miss"] > 0)
        IN IF IsBlank(text) THEN pure.snapshot.intensity = "low"
           ELSE IF floored THEN /\ AtLeastMedium(pure.snapshot.intensity)
                                /\ AtLeastMedium(extractIntensity(text))
                                        => pure.snapshot.intensity = extractIntensity(text)
           ELSE pure.snapshot.intensity = extractIntensity(text)

\* A sad snapshot raised to medium by a sad keyword alone.
C32_Witness ==
    /\ pure.fn = "tone"
    /\ pure.snapshot = [tone |-> "sad", intensity |-> "medium"]
    /\ pure.text.hits["sad_words"] > 0
    /\ extractIntensity(pure.text) = "low"

-----------------------------------------------------------------------------
(* normalizeConfig on raw JavaScript values.  A value is undefined, null,  *)
(* a string, a boolean or a number; a finite number is held as twice its   *)
(* value, so that halves can be told from integers, and NaN, Infinity and  *)
(* -Infinity are numbers of their own.                                     *)

Undefined == [t |-> "undefined"]
JsNull == [t |-> "null"]
JsString == [t |-> "string"]
JsBool(b) == [t |-> "boolean", b |-> b]
JsNum(twice) == [t |-> "number", twice |-> twice]
JsInt(n) == JsNum(2 * n)
NaN == [t |-> "NaN"]
PosInfinity == [t |-> "Infinity"]
NegInfinity == [t |-> "-Infinity"]

\* typeof v === 'number'
IsNumber(v) == v.t \in {"number", "NaN", "Infinity", "-Infinity"}

\* Number.isFinite(v)
IsFinite(v) == v.t = "number"

\* Math.floor(v)
Floor(v) == IF v.t = "number" THEN JsInt(v.twice \div 2) ELSE v

\* A variant without the Number.isNaN test: Math.max and Math.min return NaN.
clampValueNoNaNTest(n, min, max) ==
    CASE n.t = "NaN" -> NaN
      [] n.t = "Infinity" -> JsInt(max)
      [] n.t = "-Infinity" -> JsInt(min)
      [] OTHER -> JsNum(Max(2 * min, Min(2 * max, n.twice)))

\* clamp(n, min, max) of config_schema.ts
clampValue(n, min, max) ==
    CASE n.t = "NaN" -> JsInt(min)
      [] n.t = "Infinity" -> JsInt(max)
      [] n.t = "-Infinity" -> JsInt(min)
      [] OTHER -> JsNum(Max(2 * min, Min(2 * max, n.twice)))

asBool(v, fallback) ==
    IF v.t = "boolean" THEN v.b
    ELSE IF IsNumber(v) /\ IsFinite(v) THEN v.twice # 0
    ELSE fallback

BoolFields == {"ui_enabled", "note_scene_summary", "note_emotion_delta", "note_phase",
               "note_proximity", "note_consent", "note_subtext", "note_silence", "note_drift",
               "note_scar_recall"}

ConfigFields == {"enabled", "strictness", "memory_depth", "ui_max_notes", "max_ui_notes_per_20",
                 "tune_ui_note_parts"} \cup BoolFields

DEFAULT_CONFIG ==
    [f \in ConfigFields |->
        CASE f = "strictness" -> JsInt(2)
          [] f = "memory_depth" -> JsInt(15)
          [] f = "ui_max_notes" -> JsInt(10)
          [] f = "max_ui_notes_per_20" -> JsNull
          [] f = "tune_ui_note_parts" -> JsNull
          [] OTHER -> JsBool(TRUE)]

\* cfg || {}: null, or an object that holds some of the fields
NullConfig == [isNull |-> TRUE, fields |-> [f \in ConfigFields |-> Undefined]]
EmptyConfig == [isNull |-> FALSE, fields |-> [f \in ConfigFields |-> Undefined]]

normalizeConfigRaw(cfg) ==
    LET src == cfg.fields
        Clamped(f, min, max) ==
            IF IsNumber(src[f]) THEN clampValue(Floor(src[f]), min, max) ELSE DEFAULT_CONFIG[f]
        Override(f, min, max) ==
            IF IsNumber(src[f]) /\ IsFinite(src[f])
            THEN clampValue(Floor(src[f]), min, max) ELSE DEFAULT_CONFIG[f]
        maxOverrideRaw == IF IsNumber(src.max_ui_notes_per_20) /\ IsFinite(src.max_ui_notes_per_20)
                          THEN Floor(src.max_ui_notes_per_20) ELSE JsNull
    IN [f \in ConfigFields |->
        CASE f = "enabled" -> IF src.enabled.t = "boolean" THEN src.enabled ELSE DEFAULT_CONFIG.enabled
          [] f = "strictness" -> Clamped(f, 1, 3)
          [] f = "memory_depth" -> Clamped(f, 5, 30)
          [] f = "ui_max_notes" -> Clamped(f, 1, 50)
          [] f = "max_ui_notes_per_20" ->
                IF maxOverrideRaw = JsNull THEN DEFAULT_CONFIG.max_ui_notes_per_20
                ELSE IF maxOverrideRaw.twice < 0 THEN JsNull
                ELSE clampValue(maxOverrideRaw, 0, 20)
          [] f = "tune_ui_note_parts" -> Override(f, 1, 6)
          [] OTHER -> JsBool(asBool(src[f], DEFAULT_CONFIG[f].b))]

-----------------------------------------------------------------------------
(* SpecConfig: normalizeConfig on null, on {} and on objects that set a    *)
(* few fields to values of any type.                                       *)

MaxConfigFields == 1

RawValues ==
    {Undefined, JsNull, JsString, JsBool(TRUE), JsBool(FALSE), NaN, PosInfinity, NegInfinity}
        \cup {JsNum(twice) : twice \in {-11, -10, -1, 0, 1, 2, 5, 7, 9, 10, 11, 12, 40, 41, 60, 61,
                                        100, 101, 1998}}

Normalized(cfg, set) == [fn |-> "config", cfg |-> cfg, set |-> set, result |-> normalizeConfigRaw(cfg)]

InitConfig == InitStage({DefaultRawConfig}, {FreshState}, {Normalized(NullConfig, {})})

\* normalizeConfig on the object with one more field set
ConfigNormalize(f, v) ==
    /\ pure.fn = "config"
    /\ f \notin pure.set
    /\ Cardinality(pure.set) < MaxConfigFields
    /\ pure' = Normalized([isNull |-> FALSE, fields |-> [pure.cfg.fields EXCEPT ![f] = v]],
                          pure.set \cup {f})
    /\ UNCHANGED <<config, myInternalState, chatState, lastOp, lastResponse, lastTurn,
                   emitLog, turnLog, snapLog, recallLog, faults>>

NextConfig == \E f \in ConfigFields, v \in RawValues : ConfigNormalize(f, v)

SpecConfig == InitConfig /\ [][NextConfig]_vars

\* v is an integer between lo and hi.
IntIn(v, lo, hi) == v.t = "number" /\ v.twice % 2 = 0 /\ (v.twice \div 2) \in lo..hi

-----------------------------------------------------------------------------
(* scoreSilenceOrPause on the trimmed content itself.                      *)
(* A content is what the patterns of scoreSilenceOrPause can see of it:    *)
(*   wrap         the delimiter it starts with and ends on ("" when none)  *)
(*   inner        the number of characters between the two delimiters, of  *)
(*                the whole content when there are none                    *)
(*   closerInside one of the inner characters is the closing delimiter     *)
(*   nonCommittal, curt, pause   the word patterns that match              *)

SpanMaxChars == 120

ShortLength == 25

Delimiters == {"*", "(", "["}

\* /^(?:\*[^*]{1,120}\*|\([^)]{1,120}\)|\[[^\]]{1,120}\])$/
IsActionSpan(content) ==
    /\ content.wrap \in Delimiters
    /\ content.inner >= 1 /\ content.inner <= SpanMaxChars
    /\ ~content.closerInside

\* trimmed.length
ContentLength(content) == content.inner + (IF content.wrap \in Delimiters THEN 2 ELSE 0)

SilenceKindBriefFirst(content) ==
    IF ContentLength(content) = 0 THEN "empty"
    ELSE IF ContentLength(content) < ShortLength /\ (content.nonCommittal \/ content.curt)
         THEN (IF content.nonCommittal THEN "brief_nc" ELSE "brief_curt")
    ELSE IF IsActionSpan(content) THEN "action"
    ELSE IF content.pause THEN "pause"
    ELSE "none"

\* The branch of scoreSilenceOrPause that a content takes.
SilenceKind(content) ==
    IF IsActionSpan(content) THEN "action"
    ELSE IF ContentLength(content) = 0 THEN "empty"
    ELSE IF ContentLength(content) < ShortLength /\ (content.nonCommittal \/ content.curt)
         THEN (IF content.nonCommittal THEN "brief_nc" ELSE "brief_curt")
    ELSE IF content.pause THEN "pause"
    ELSE "none"

-----------------------------------------------------------------------------
(* SpecSilence: scoreSilenceOrPause on contents of every shape around the  *)
(* two length limits.                                                      *)

SilenceLengths ==
    {0, 1, 2, 3, 5, 8, 9, ShortLength - 3, ShortLength - 1, ShortLength, SpanMaxChars, SpanMaxChars + 1}

\* The contents that exist: "ok" to "whatever." are 2 to 9 characters and are
\* the whole content, a non-committal phrase takes 5 characters or more, a
\* pause cue 3, a closing delimiter 1.
SilenceContents ==
    {content \in [wrap : {""} \cup Delimiters, inner : SilenceLengths, closerInside : BOOLEAN,
                  nonCommittal : BOOLEAN, curt : BOOLEAN, pause : BOOLEAN] :
        /\ content.closerInside => content.wrap \in Delimiters
        /\ content.curt => /\ content.wrap = "" /\ content.inner \in 2..9
                           /\ ~content.nonCommittal /\ ~content.pause
        /\ content.inner >= (IF content.nonCommittal THEN 5 ELSE 0) + (IF content.pause THEN 3 ELSE 0)
                              + (IF content.closerInside THEN 1 ELSE 0)}

SilenceScored(content) ==
    [fn |-> "silence", content |-> content, result |-> scoreSilenceOrPause(SilenceKind(content))]

EmptyContent ==
    [wrap |-> "", inner |-> 0, closerInside |-> FALSE, nonCommittal |-> FALSE, curt |-> FALSE,
     pause |-> FALSE]

InitSilence == InitStage({DefaultRawConfig}, {FreshState}, {SilenceScored(EmptyContent)})

\* scoreSilenceOrPause(content)
SilenceScore(content) ==
    /\ pure.fn = "silence"
    /\ pure' = SilenceScored(content)
    /\ UNCHANGED <<config, myInternalState, chatState, lastOp, lastResponse, lastTurn,
                   emitLog, turnLog, snapLog, recallLog, faults>>

NextSilence == \E content \in SilenceContents : SilenceScore(content)

SpecSilence == InitSilence /\ [][NextSilence]_vars

\* The content is one span: it opens and closes on a delimiter pair and the
\* closing delimiter does not occur in between.
OneSpan(content) == content.wrap \in Delimiters /\ content.inner >= 1 /\ ~content.closerInside

\* The content is "..." and nothing else.
BareEllipsis(content) ==
    /\ content.wrap = "" /\ content.inner = 3 /\ content.pause
    /\ ~content.nonCommittal /\ ~content.curt

EmptyAndEllipsisNoted ==
    /\ ContentLength(pure.content) = 0 => pure.result.note = "Silence detected"
    /\ BareEllipsis(pure.content) => pure.result.note = "Pause noted"

-----------------------------------------------------------------------------
(* The phase history over runs of afterResponse turns from the fresh state  *)
(* (SpecPhase).                                                             *)

\* C35: in every state reached from the fresh state by afterResponse turns
\* alone, phaseHistory got one entry in a turn that changed the phase (the
\* new phase, appended) and none in any other turn, its entries are strictly
\* increasing in phase order, there are at most 3 of them, and the last one,
\* when there is one, names the current phase.
C35_PhaseHistoryFollowsPhase ==
    LET h == myInternalState.phaseHistory
    IN /\ lastTurn.kind = "turn" =>
            IF myInternalState.phase # lastTurn.phaseBefore
            THEN /\ Len(h) = Len(lastTurn.phaseHistoryBefore) + 1
                 /\ SubSeq(h, 1, Len(h) - 1) = lastTurn.phaseHistoryBefore
                 /\ h[Len(h)].phase = myInternalState.phase
            ELSE h = lastTurn.phaseHistoryBefore
       /\ \A i, j \in 1..Len(h) : i < j => PhaseIdx(h[i].phase) < PhaseIdx(h[j].phase)
       /\ Len(h) <= 3
       /\ Len(h) = PhaseIdx(myInternalState.phase)
       /\ Len(h) > 0 => h[Len(h)].phase = myInternalState.phase

\* The phase has gone all the way to Intimate and a later turn, whose target
\* was still Intimate, left the three entries as they were.
C35_Witness ==
    /\ lastTurn.kind = "turn"
    /\ lastTurn.phaseBefore = "Intimate"
    /\ lastTurn.targetIdx = 3
    /\ Len(myInternalState.phaseHistory) = 3
    /\ myInternalState.phaseHistory[1].phase = "Familiar"
    /\ myInternalState.phaseHistory[3].phase = "Intimate"

-----------------------------------------------------------------------------
(* SpecStill: afterResponse turns alone from the fresh state, strictness 3, *)
(* drift notes enabled.                                                     *)

NextStill == \E text \in DriftTexts : TurnsLeft(MaxDriftTurns) /\ AfterResponse(text)

SpecStill == InitDrift /\ [][NextStill]_vars

\* Some sequence of at most n afterResponse turns from the message state s
\* and the scene raises a drift candidate.
RECURSIVE DriftWithin(_, _, _)
DriftWithin(s, scene, n) ==
    /\ n > 0
    /\ \E text \in DriftTexts :
          \E tr \in {AfterResponseTrace(s, scene, config, text)} :
              \/ \E i \in 1..Len(tr.candidates) : tr.candidates[i].id = "drift"
              \/ DriftWithin(tr.s, tr.scene, n - 1)

\* C36: drift detection is reachable: from the fresh state, at strictness 3
\* with drift notes enabled, some sequence of afterResponse turns (no
\* setState) ends in a turn that raises a drift candidate.
C36_DriftReachable ==
    myInternalState.turnIndex = 0 => DriftWithin(myInternalState, chatState, MaxDriftTurns)

\* No turn of any run of afterResponse turns from the fresh state raises a
\* drift candidate.
NoDriftFromFresh == lastTurn.kind = "turn" => ~HasCandidate("drift")

\* Four turns of "He nods." from the fresh state: the tone has been the same
\* for three turns, the phase has never changed, no recent signal carries
\* weight, the proximity stays, no drift note was raised before, and the
\* fourth turn raises no drift candidate.
C36_FlatButNoDrift ==
    /\ lastTurn.kind = "turn"
    /\ lastTurn.turnIndex = 4
    /\ Len(lastTurn.emotionsBefore) = 3
    /\ \A i \in 1..3 : lastTurn.emotionsBefore[i].tone = "neutral"
    /\ myInternalState.phase = "Neutral" /\ myInternalState.phaseHistory = <<>>
    /\ RecentSignalWeight = 0
    /\ ~lastTurn.proximityResult.changed
    /\ myInternalState.driftNotes = <<>>
    /\ ~HasCandidate("drift")

-----------------------------------------------------------------------------
(* SpecWhiplash: long runs of afterResponse turns that swing between a     *)
(* calm and a furious reply, under a fixed configuration, with a note      *)
(* quota that never runs out, with the quota of the strictness level and   *)
(* with a quota of one note.                                               *)

MaxWhipTurns == 24

\* "He nods." / "I HATE this!!! I am furious!!!"
TRage == [PlainText EXCEPT !.tone = "angry", !.intensity = "high"]

WhipTexts == {TPlain, TRage}

WhipConfigs ==
    {[DefaultRawConfig EXCEPT !.strictness = n, !.memory_depth = 5, !.ui_max_notes = 1,
                              !.max_ui_notes_per_20 = q] : n \in 1..3, q \in {Null, Num(1), Num(20)}}

InitWhip == InitWith(WhipConfigs, {FreshState})

\* The first WhipFreeTurns turns and the last two take any of the texts; the
\* turns in between repeat calm, calm, furious.
WhipFreeTurns == 6

WhipTurn(text) ==
    LET t == myInternalState.turnIndex + 1
    IN \/ t <= WhipFreeTurns
       \/ t > MaxWhipTurns - 2
       \/ text = (IF t % 3 = 0 THEN TRage ELSE TPlain)

NextWhip == \E text \in WhipTexts : TurnsLeft(MaxWhipTurns) /\ WhipTurn(text) /\ AfterResponse(text)

SpecWhip == InitWhip /\ [][NextWhip]_vars

\* The whiplash candidates a strictness level allows in 20 consecutive turns.
WhiplashLimit(strictness) == IF strictness = 3 THEN 3 ELSE IF strictness = 2 THEN 2 ELSE 0

\* The turn just taken appended its index to lastAnnotations exactly when it
\* raised an emotion_delta candidate: before a 20th entry is cut,
\* lastAnnotations is the list of the turns that raised one.
AnnotationsLogCandidates ==
    lastOp' = "afterResponse" =>
        /\ lastTurn'.kind = "turn"
        /\ IF \E i \in 1..Len(lastTurn'.candidates) : lastTurn'.candidates[i].id = "emotion_delta"
           THEN myInternalState'.lastAnnotations
                    = myInternalState.lastAnnotations \o <<myInternalState'.turnIndex>>
           ELSE myInternalState'.lastAnnotations = myInternalState.lastAnnotations

WhiplashWithinLimit ==
    LET raised == myInternalState.lastAnnotations
        strictness == normalizeConfig(config).strictness
    IN /\ \A t \in 1..myInternalState.turnIndex :
            Cardinality({i \in 1..Len(raised) : raised[i] \in t..(t + 19)}) <= WhiplashLimit(strictness)
       /\ (lastTurn.kind = "turn"
           /\ lastTurn.quotaBefore >= allowedUiNotesPer20(normalizeConfig(config)))
             => ~HasCandidate("emotion_delta")

\* C37: under a fixed configuration, any 20 consecutive turns raise at most
\* 2 whiplash (emotion_delta) candidates at strictness 2 and at most 3 at
\* strictness 3; none is raised at strictness 1 or in a turn whose note quota
\* is exhausted.
C37_WhiplashLimitedPerWindow == []WhiplashWithinLimit /\ [][AnnotationsLogCandidates]_vars

\* With a quota that never runs out, a whiplash candidate is raised again
\* once the oldest of the window's candidates is 20 turns back: the turn
\* raised the candidate after the limit's number of earlier ones.
C37_Witness ==
    /\ lastTurn.kind = "turn"
    /\ HasCandidate("emotion_delta")
    /\ normalizeConfig(config).strictness = 3
    /\ Len(myInternalState.lastAnnotations) = 4
    /\ myInternalState.lastAnnotations[4] - myInternalState.lastAnnotations[1] >= 20
    /\ myInternalState.lastAnnotations[4] - myInternalState.lastAnnotations[2] < 20

-----------------------------------------------------------------------------
(* The winning tone and the per-tone minimum (SpecTone).                   *)

\* The minimum score the tones are documented to need.
StatedMinimum(tone) ==
    IF tone \in {"sad", "angry", "anxious", "embarrassed", "jealous", "excited"} THEN 2 ELSE 1

MeetsMinimum(text, tone) == toneScore(text, tone) >= StatedMinimum(tone)

TonePosition(tone) == IndexOf(toneOrder, tone)

\* C38 as stated: the classifier returns neutral only if no tone reaches its
\* own minimum score; whenever some tone meets its minimum, the returned
\* tone is a non-neutral tone that meets its minimum.
C38_NeutralOnlyBelowEveryMinimum ==
    (pure.fn = "tone" /\ \E tone \in Range(toneOrder) : MeetsMinimum(pure.text, tone))
        => /\ pure.snapshot.tone # "neutral"
           /\ MeetsMinimum(pure.text, pure.snapshot.tone)

\* C38 amended: a returned non-neutral tone meets its own minimum, no tone
\* scores higher and no tone of the same score comes before it in the order
\* affection, angry, anxious, sad, embarrassed, jealous, excited, tense; when
\* neutral is returned, no tone meets its minimum, except that tense may
\* score 1 in a tie with a tone of minimum 2.
C38_WinnerMeetsItsMinimum ==
    pure.fn = "tone" =>
        LET won == pure.snapshot.tone
            Score(tone) == toneScore(pure.text, tone)
        IN IF won # "neutral"
           THEN /\ MeetsMinimum(pure.text, won)
                /\ \A tone \in Range(toneOrder) :
                      /\ Score(tone) <= Score(won)
                      /\ (Score(tone) = Score(won) => TonePosition(won) <= TonePosition(tone))
           ELSE \A tone \in Range(toneOrder) :
                    MeetsMinimum(pure.text, tone) =>
                        /\ tone = "tense" /\ Score(tone) = 1
                        /\ \E other \in Range(toneOrder) \ {"tense"} :
                              Score(other) = 1 /\ StatedMinimum(other) = 2

\* "Sorry," he sighs.: sad 1 (apology), tense 1 (sigh), and neutral is returned.
C38_Witness ==
    /\ pure.fn = "tone"
    /\ pure.text.hits["apology"] = 1 /\ pure.text.hits["sigh"] = 1
    /\ toneScore(pure.text, "sad") = 1 /\ toneScore(pure.text, "tense") = 1
    /\ pure.snapshot.tone = "neutral"

-----------------------------------------------------------------------------
(* SafeRunner: the message handler between the parent window and the stage. *)
(* The runner's state is                                                    *)
(*   stage     the React state: 0 for null, otherwise the number of the     *)
(*             INIT message whose factory call created the stage            *)
(*   listener  the value of stage in the closure of the handleMessage that  *)
(*             is registered on the window (the effect of the last render   *)
(*             that ran)                                                    *)
(*   msgs      the message events delivered so far, each with what its      *)
(*             handler invocation has done: where it is (at "load" or       *)
(*             "call" while it awaits, "done" after it returned), the       *)
(*             replies it posted, the stage whose method it called          *)

INIT == "INIT"
BEFORE == "BEFORE"
AFTER == "AFTER"
SET == "SET"
MESSAGE_TYPES == {INIT, BEFORE, AFTER, SET}

NotInitialized == "Stage not initialized."

\* window.parent.postMessage({messageType, data: message}, '*')
sendMessage(messageType, error) == [messageType |-> messageType, error |-> error]

\* A variant whose catch blocks only log.
CatchSendsNothing(messageType) == <<>>

\* The catch block of a message type: one reply that carries the error.
CatchSends(messageType) == <<sendMessage(messageType, "Stage error")>>

\* handleMessage up to its first await, or to its return when there is none.
\* thrown: the factory call of an INIT throws.
HandleStart(runner, messageType, fromParent, thrown) ==
    LET event == [messageType |-> messageType, fromParent |-> fromParent,
                  stageAtArrival |-> runner.stage, captured |-> runner.listener,
                  at |-> "done", replies |-> <<>>, called |-> 0]
    IN IF ~fromParent THEN event
       ELSE IF messageType = INIT
            THEN (IF thrown THEN [event EXCEPT !.replies = CatchSends(INIT)]
                  ELSE [event EXCEPT !.at = "load"])
       ELSE IF runner.listener = 0
            THEN [event EXCEPT !.replies = <<sendMessage(messageType, NotInitialized)>>]
       ELSE [event EXCEPT !.at = "call", !.called = runner.listener]

\* handleMessage after its await.  thrown: the awaited promise rejected.
HandleRest(event, thrown) ==
    [event EXCEPT !.at = "done",
                  !.replies = IF thrown THEN CatchSends(event.messageType)
                              ELSE <<sendMessage(event.messageType, "")>>]

-----------------------------------------------------------------------------
(* SpecRunner: up to MaxMessages message events, from the parent window or  *)
(* from another source, delivered at any time; the awaited stage calls      *)
(* return or throw; the effect that re-registers the listener runs at any   *)
(* time after setStage.                                                     *)

MaxMessages == 4

Runner(stage, listener, msgs) == [fn |-> "runner", stage |-> stage, listener |-> listener, msgs |-> msgs]

InitRunner == InitStage({DefaultRawConfig}, {FreshState}, {Runner(0, 0, <<>>)})

RunnerStep(next) ==
    /\ pure.fn = "runner"
    /\ pure' = next
    /\ UNCHANGED <<config, myInternalState, chatState, lastOp, lastResponse, lastTurn,
                   emitLog, turnLog, snapLog, recallLog, faults>>

\* A message event is dispatched to the registered listener.
HandleMessage(messageType, fromParent, thrown) ==
    /\ pure.fn = "runner"
    /\ Len(pure.msgs) < MaxMessages
    /\ thrown => (fromParent /\ messageType = INIT)
    /\ RunnerStep(Runner(pure.stage, pure.listener,
                         Append(pure.msgs, HandleStart(pure, messageType, fromParent, thrown))))

\* The promise that handler invocation i awaits settles.  After a load() that
\* resolved, the INIT reply is posted and setStage(newStage) is called.
HandleMessageResume(i, thrown) ==
    /\ pure.fn = "runner"
    /\ i \in 1..Len(pure.msgs)
    /\ pure.msgs[i].at \in {"load", "call"}
    /\ RunnerStep(Runner(IF pure.msgs[i].at = "load" /\ ~thrown THEN i ELSE pure.stage,
                         pure.listener,
                         [pure.msgs EXCEPT ![i] = HandleRest(@, thrown)]))

\* useEffect(..., [stage]) after the render that follows setStage: the old
\* listener is removed, a handleMessage that sees the new stage is added.
UseEffect ==
    /\ pure.fn = "runner"
    /\ pure.listener # pure.stage
    /\ RunnerStep(Runner(pure.stage, pure.stage, pure.msgs))

NextRunner ==
    \/ \E messageType \in MESSAGE_TYPES, fromParent \in BOOLEAN, thrown \in BOOLEAN :
            HandleMessage(messageType, fromParent, thrown)
    \/ \E i \in 1..MaxMessages, thrown \in BOOLEAN : HandleMessageResume(i, thrown)
    \/ UseEffect

SpecRunner == InitRunner /\ [][NextRunner]_vars

\* C39: every INIT, BEFORE, AFTER or SET message from the parent window gets
\* one reply of its own type and no other: none while its handler awaits,
\* exactly one once the handler has returned, also when the stage call or
\* the factory throws; when the handler sees no stage, the reply carries
\* "Stage not initialized." and no stage method is called; a message from
\* another source gets no reply, creates no stage and calls none.
C39_OneReplyPerRequest ==
    pure.fn = "runner" =>
        \A i \in 1..Len(pure.msgs) :
            LET m == pure.msgs[i]
            IN /\ m.fromParent =>
                    /\ Len(m.replies) = (IF m.at = "done" THEN 1 ELSE 0)
                    /\ \A k \in 1..Len(m.replies) : m.replies[k].messageType = m.messageType
                    /\ (m.messageType # INIT /\ m.captured = 0) =>
                            /\ m.at = "done"
                            /\ m.replies = <<sendMessage(m.messageType, NotInitialized)>>
                            /\ m.called = 0
               /\ ~m.fromParent =>
                    /\ m.at = "done" /\ m.replies = <<>> /\ m.called = 0
                    /\ pure.stage # i

\* A BEFORE whose stage call threw has been answered, and a SET that came
\* before any INIT has been answered "Stage not initialized.".
C39_Witness ==
    /\ pure.fn = "runner"
    /\ \E i \in 1..Len(pure.msgs) :
          /\ pure.msgs[i].messageType = BEFORE /\ pure.msgs[i].called # 0
          /\ pure.msgs[i].replies = <<sendMessage(BEFORE, "Stage error")>>
    /\ \E i \in 1..Len(pure.msgs) :
          /\ pure.msgs[i].messageType = SET /\ pure.msgs[i].fromParent
          /\ pure.msgs[i].stageAtArrival = 0
          /\ pure.msgs[i].replies = <<sendMessage(SET, NotInitialized)>>

\* C40: once the reply to an INIT has been posted, every BEFORE, AFTER or
\* SET message that arrives afterwards is handled by the stage created for
\* that INIT (the latest one answered): it is not answered "Stage not
\* initialized." and not dispatched to the stage of an earlier INIT.
C40_HandledByAnsweredInit ==
    pure.fn = "runner" =>
        \A i \in 1..Len(pure.msgs) :
            LET m == pure.msgs[i]
            IN (m.fromParent /\ m.messageType # INIT /\ m.stageAtArrival # 0) =>
                    /\ m.called = m.stageAtArrival
                    /\ \A k \in 1..Len(m.replies) : m.replies[k].error # NotInitialized

\* INIT 1 answered, BEFORE 2 arrived before the listener was re-registered
\* and was answered "Stage not initialized."; INIT 3 answered, AFTER 4
\* arrived before the listener was re-registered and went to the stage of
\* INIT 1.
C40_StaleListener ==
    /\ pure.fn = "runner"
    /\ Len(pure.msgs) = 4
    /\ pure.msgs[2].stageAtArrival = 1
    /\ pure.msgs[2].replies = <<sendMessage(BEFORE, NotInitialized)>>
    /\ pure.msgs[4].stageAtArrival = 3
    /\ pure.msgs[4].called = 1

====
